---- MODULE Spec2Model ----
(***************************************************************************)
(* The encounter engine of src/src/scenes/battle_scene.py (BattleScene),   *)
(* with the runtime data of src/src/battle/data.py and the bullet phase of *)
(* src/src/battle/patterns.py.                                             *)
(*                                                                         *)
(* Time is counted in milliseconds: run() computes dt = clock.tick(60) /   *)
(* 1000.0 from an integer number of milliseconds, and every timer of the   *)
(* scene (0.9, 1.2, 1.55, 0.22, 3.5 .. 4.8 seconds) is a whole number of   *)
(* milliseconds.  The attack pointer moves 1.2 per second, that is 6       *)
(* units of 1/5000 per millisecond, so the pointer is counted in units of  *)
(* 1/5000 (PointerOne).                                                    *)
(*                                                                         *)
(* One step of the model is one iteration of the event loop of run (one    *)
(* event handled, KeyDown or QuitEvent) or the rest of the frame (Frame:   *)
(* _update, then the test of self.result).  Any number of events may       *)
(* precede the update of a frame, so the two interleave freely.            *)
(*                                                                         *)
(* The bullets of a phase all carry the radius, damage and colour of their *)
(* pattern; the list is kept as their number together with these shared    *)
(* fields.  Positions and velocities are drawn at random by the pattern    *)
(* generator: which bullets hit the soul or leave the box in a frame is a  *)
(* nondeterministic choice here (BulletOutcomes).                          *)
(***************************************************************************)
EXTENDS Integers, Sequences, FiniteSets, TLC

VARIABLES
    state,              \* self.state (BattleState)
    state_timer,        \* self.state_timer, ms
    info,               \* self.info_lines, as a tag naming the message
    main_selected,      \* self.main_selected
    list_selected,      \* self.list_selected
    list_mode,          \* self.list_mode
    feedback_to_enemy,  \* self._feedback_to_enemy
    attack_pointer,     \* self.attack_pointer, in 1/PointerOne
    attack_dir,         \* self.attack_dir
    attack_elapsed,     \* self.attack_elapsed, ms
    attack_locked,      \* self.attack_locked
    bullets,            \* self.bullets
    bullet_timer,       \* self.bullet_timer, ms
    hit_cooldown,       \* self.hit_cooldown, ms
    enemy_turn_count,   \* self.enemy_turn_count
    pressure_profile,   \* self.pressure_profile
    player,             \* self.runtime.player
    enemy,              \* self.runtime.enemy
    inventory,          \* self.runtime.inventory
    result,             \* self.result
    ret,                \* << >> while run() loops, then << the record it returned >>
    since_hit,          \* history: dodge-phase ms since damage was last applied
    last_hits,          \* history: the hit count of the last update_bullets call
    silent_hits,        \* history: collisions of the phase that triggered no hit sound
    arena,              \* the bullets one by one, with their positions (SpecBullets)
    soul                \* self.soul_pos in 1/1000 pixel, and the centre of the
                        \* rectangle _soul_rect() last gave update_bullets

vars == <<state, state_timer, info, main_selected, list_selected, list_mode,
          feedback_to_enemy, attack_pointer, attack_dir, attack_elapsed,
          attack_locked, bullets, bullet_timer, hit_cooldown, enemy_turn_count,
          pressure_profile, player, enemy, inventory, result, ret, since_hit,
          last_hits, silent_hits, arena, soul>>

-----------------------------------------------------------------------------
(* Bounds of the model *)

\* enemy phases an encounter may start (Spec)
MaxTurns == 1
\* enemy phases a long encounter may start (SpecLong)
MaxLongTurns == 3
\* enemy phases an encounter without attacks may start (SpecTalk)
MaxTalkTurns == 5
\* turn counts the pattern generator is applied to (SpecPattern)
MaxTurnCount == 16
\* the time of a frame, ms
FrameMs == 400
\* bullets that may hit the soul in one frame
MaxHitsPerFrame == 2
\* bullets that may leave the box in one frame
MaxCullPerFrame == 1

\* frame times, ms
DtSet == {FrameMs}
\* draws of random.uniform(3.5, 4.8), ms
BulletTimes == {3500, 4800}

-----------------------------------------------------------------------------
(* Program constants *)

OBSERVE_TIME == 900
FEEDBACK_DELAY == 1200
ATTACK_DURATION == 1550
HIT_COOLDOWN == 220
PointerOne == 5000
PointerPerMs == 6
MAX_RADIUS == 14
SPARE_THRESHOLD == 60
HEAL_AMOUNT == 5
\* self.battle_box at the authored resolution of 1536 x 1024
BoxLeft == 252
BoxTop == 322
BoxWidth == 1032
BoxHeight == 408
\* self.soul_pos at the start
SoulX == 757
SoulY == 669
PLAYER_SPEED == 290
SOUL_MARGIN == 22
SOUL_TOP_EXTRA == 24

None == "None"
\* ret holds the returned record once run has returned
NoRet == << >>

Keys == {"LEFT", "RIGHT", "UP", "DOWN", "CONFIRM", "ESCAPE", "OTHER"}

Max(a, b) == IF a >= b THEN a ELSE b
Min(a, b) == IF a <= b THEN a ELSE b

-----------------------------------------------------------------------------
(* src/src/battle/data.py *)

PlayerState == [hp |-> 20, max_hp |-> 20]

EnemyState == [hp |-> 18, max_hp |-> 18, mind |-> 45, max_mind |-> 100,
               bond |-> 0, max_bond |-> 100, spare_progress |-> 0,
               key_act_done |-> FALSE]

\* "ganlu" is the healing dew, "butiao" the cloth strip
BattleRuntimeInventory ==
    << [name |-> "ganlu", count |-> 2], [name |-> "butiao", count |-> 1] >>

\* growth rates in thousandths
DEFAULT_PRESSURE_PROFILE ==
    [corner_base_amount |-> 32, corner_growth |-> 180, corner_cap |-> 72,
     top_base_amount |-> 38, top_growth |-> 160, top_cap |-> 86,
     size_boost_step_turns |-> 2, size_boost_cap |-> 6,
     speed_growth |-> 50, speed_growth_cap |-> 400]

SPIDER_PRESSURE_PROFILE ==
    [corner_base_amount |-> 34, corner_growth |-> 200, corner_cap |-> 78,
     top_base_amount |-> 40, top_growth |-> 180, top_cap |-> 92,
     size_boost_step_turns |-> 2, size_boost_cap |-> 6,
     speed_growth |-> 55, speed_growth_cap |-> 420]

get_enemy_pressure_profile(enemy_name) ==
    IF enemy_name = "spider" THEN SPIDER_PRESSURE_PROFILE
    ELSE DEFAULT_PRESSURE_PROFILE

\* the index of the first item called name, 0 when there is none
get_item(inv, name) ==
    IF \E i \in 1..Len(inv) : inv[i].name = name
    THEN CHOOSE i \in 1..Len(inv) :
            inv[i].name = name /\ \A j \in 1..(i - 1) : inv[j].name # name
    ELSE 0

\* only the upper ends of the ranges are enforced
clamp_enemy_stats_upperOnly(e) ==
    [e EXCEPT !.hp = Min(e.max_hp, e.hp),
              !.mind = Min(e.max_mind, e.mind),
              !.bond = Min(e.max_bond, e.bond),
              !.spare_progress = Min(100, e.spare_progress)]

clamp_enemy_stats(e) ==
    [e EXCEPT !.hp = Max(0, Min(e.max_hp, e.hp)),
              !.mind = Max(0, Min(e.max_mind, e.mind)),
              !.bond = Max(0, Min(e.max_bond, e.bond)),
              !.spare_progress = Max(0, Min(100, e.spare_progress))]

\* the progress follows the bond instead of ratcheting
refresh_spare_progress_follow(e) ==
    clamp_enemy_stats([e EXCEPT !.spare_progress = e.bond])

refresh_spare_progress(e) ==
    clamp_enemy_stats([e EXCEPT !.spare_progress = Max(e.spare_progress, e.bond)])

-----------------------------------------------------------------------------
(* src/src/battle/patterns.py *)

\* no list of positioned bullets is kept
NoArena == << >>

NoBullets == [n |-> 0, radius |-> 0, damage |-> 0, kind |-> "none", vel_scale |-> 0]

\* amount bullets of radius 6 and damage 2; range(amount) is empty below 1
spawn_corner_drops(amount) ==
    IF amount <= 0 THEN NoBullets
    ELSE [n |-> amount, radius |-> 6, damage |-> 2, kind |-> "corner",
          vel_scale |-> 1000]

spawn_top_threads(amount) ==
    IF amount <= 0 THEN NoBullets
    ELSE [n |-> amount, radius |-> 5, damage |-> 2, kind |-> "top",
          vel_scale |-> 1000]

\* What one update_bullets call can do to a list b: hits bullets collide with
\* the soul and culled bullets have left the inflated box; both are removed.
\* At most max_hits and max_culled of each are drawn.
BulletOutcomes(b, max_hits, max_culled) ==
    { o \in [hits : 0..Min(b.n, max_hits), culled : 0..Min(b.n, max_culled)] :
        o.hits + o.culled <= b.n }

\* only the first of the bullets that hit counts for the damage
update_bullets_firstHitOnly(b, o) ==
    LET left == b.n - o.hits - o.culled
    IN  [bullets |-> IF left <= 0 THEN NoBullets ELSE [b EXCEPT !.n = left],
         damage |-> IF o.hits > 0 THEN b.damage ELSE 0,
         hit_count |-> o.hits]

\* the list after the call, the damage and the hit count it returns
update_bullets(b, o) ==
    LET left == b.n - o.hits - o.culled
    IN  [bullets |-> IF left <= 0 THEN NoBullets ELSE [b EXCEPT !.n = left],
         damage |-> o.hits * b.damage,
         hit_count |-> o.hits]

-----------------------------------------------------------------------------
(* src/src/battle/patterns.py, bullet by bullet.  A position is counted in *)
(* half pixels (x2, y2), a velocity in pixels per second, a rectangle in   *)
(* pixels as pygame.Rect keeps it.                                         *)

\* pygame.Rect(left, top, width, height)
Rect(left, top, width, height) ==
    [left |-> left, top |-> top, width |-> width, height |-> height]

RectRight(r) == r.left + r.width
RectBottom(r) == r.top + r.height

\* the rectangle grows by dx and dy on every side
RectInflate_perSide(r, dx, dy) ==
    Rect(r.left - dx, r.top - dy, r.width + 2 * dx, r.height + 2 * dy)

\* Rect.inflate(dx, dy): the size grows by dx and dy around the same centre
RectInflate(r, dx, dy) ==
    Rect(r.left - dx \div 2, r.top - dy \div 2, r.width + dx, r.height + dy)

\* Rect.colliderect: the two rectangles overlap (an empty one never does)
RectCollide(a, b) ==
    /\ a.width > 0 /\ a.height > 0 /\ b.width > 0 /\ b.height > 0
    /\ a.left < RectRight(b) /\ b.left < RectRight(a)
    /\ a.top < RectBottom(b) /\ b.top < RectBottom(a)

\* Python's int() of num / den (den > 0): towards zero
IntTrunc(num, den) ==
    IF num >= 0 THEN num \div den ELSE -((-num) \div den)

\* Bullet.rect
BulletRect(b) ==
    Rect(IntTrunc(b.x2 - 2 * b.radius, 2), IntTrunc(b.y2 - 2 * b.radius, 2),
         2 * b.radius, 2 * b.radius)

\* bullet.pos += bullet.vel * dt, dt in ms
MovedBullet(b, dt) ==
    [b EXCEPT !.x2 = b.x2 + (b.vx * dt) \div 500,
              !.y2 = b.y2 + (b.vy * dt) \div 500]

\* the bullet hits the soul
BulletHits(b, player_rect) == RectCollide(BulletRect(b), player_rect)

\* no bullet is dropped for having left the box
BulletAlive_noCull(b, box, player_rect) == ~BulletHits(b, player_rect)

\* the bullet stays in the list
BulletAlive(b, box, player_rect) ==
    /\ ~BulletHits(b, player_rect)
    /\ RectCollide(RectInflate(box, 30, 30), BulletRect(b))

\* the surviving bullets are collected in the reverse order
RECURSIVE UpdateBulletList_reversed(_, _, _, _)
UpdateBulletList_reversed(list, dt, box, player_rect) ==
    IF list = << >>
    THEN [alive |-> << >>, damage |-> 0, hit_count |-> 0]
    ELSE LET b == MovedBullet(Head(list), dt)
             rest == UpdateBulletList_reversed(Tail(list), dt, box, player_rect)
         IN  IF BulletHits(b, player_rect)
             THEN [rest EXCEPT !.damage = @ + b.damage, !.hit_count = @ + 1]
             ELSE IF BulletAlive(b, box, player_rect)
             THEN [rest EXCEPT !.alive = @ \o << b >>]
             ELSE rest

\* update_bullets over a list of positioned bullets: the list it leaves and
\* the (damage, hit_count) it returns
RECURSIVE UpdateBulletList(_, _, _, _)
UpdateBulletList(list, dt, box, player_rect) ==
    IF list = << >>
    THEN [alive |-> << >>, damage |-> 0, hit_count |-> 0]
    ELSE LET b == MovedBullet(Head(list), dt)
             rest == UpdateBulletList(Tail(list), dt, box, player_rect)
         IN  IF BulletHits(b, player_rect)
             THEN [rest EXCEPT !.damage = @ + b.damage, !.hit_count = @ + 1]
             ELSE IF BulletAlive(b, box, player_rect)
             THEN [rest EXCEPT !.alive = << b >> \o @]
             ELSE rest

-----------------------------------------------------------------------------
(* src/src/scenes/battle_scene.py: the pattern of an enemy phase *)

\* Python's round of num / den (den > 0): to the nearest, a half to the even
Round(num, den) ==
    LET q == num \div den
        r == num % den
    IN  IF 2 * r < den THEN q
        ELSE IF 2 * r > den THEN q + 1
        ELSE IF q % 2 = 0 THEN q ELSE q + 1

\* the pressure is the turn count itself
Pressure_turn(turn_count) == Max(0, turn_count)

\* pressure = max(0, self.enemy_turn_count - 1)
Pressure(turn_count) == Max(0, turn_count - 1)

\* the amount grows without the cap
BulletAmount_noCap(profile, pattern, pressure) ==
    IF pattern = "corner"
    THEN Round(profile.corner_base_amount * (1000 + pressure * profile.corner_growth), 1000)
    ELSE Round(profile.top_base_amount * (1000 + pressure * profile.top_growth), 1000)

BulletAmount(profile, pattern, pressure) ==
    IF pattern = "corner"
    THEN Min(profile.corner_cap,
             Round(profile.corner_base_amount * (1000 + pressure * profile.corner_growth), 1000))
    ELSE Min(profile.top_cap,
             Round(profile.top_base_amount * (1000 + pressure * profile.top_growth), 1000))

SizeBoost(profile, pressure) ==
    Min(profile.size_boost_cap, pressure \div Max(1, profile.size_boost_step_turns))

\* the speed grows without the cap
SpeedScale_noCap(profile, pressure) == 1000 + pressure * profile.speed_growth

\* in thousandths
SpeedScale(profile, pressure) ==
    1000 + Min(profile.speed_growth_cap, pressure * profile.speed_growth)

BoostedRadius(radius, size_boost) == Min(MAX_RADIUS, radius + size_boost)

\* the bullets of the phase that makes the turn counter turn_count
PatternBullets(profile, pattern, turn_count) ==
    LET pressure == Pressure(turn_count)
        amount == BulletAmount(profile, pattern, pressure)
        spawned == IF pattern = "corner" THEN spawn_corner_drops(amount)
                   ELSE spawn_top_threads(amount)
    IN  IF spawned.n = 0 THEN NoBullets
        ELSE [spawned EXCEPT
                !.radius = BoostedRadius(spawned.radius, SizeBoost(profile, pressure)),
                !.vel_scale = (spawned.vel_scale * SpeedScale(profile, pressure)) \div 1000]

-----------------------------------------------------------------------------
(* src/src/scenes/battle_scene.py: BattleScene *)

TalkOptions == << "hum", "ask", "cloth", "shout" >>

\* _active_options: the names behind the option lines of the active list
ActiveOptions(mode, inv) ==
    IF mode = "talk" THEN TalkOptions
    ELSE IF mode = "item" THEN [i \in 1..Len(inv) |-> inv[i].name]
    ELSE << >>

\* __init__: the player the scene starts with
InitPlayer(player_hp, player_max_hp) ==
    [hp |-> Max(1, Min(player_max_hp, player_hp)), max_hp |-> player_max_hp]

\* GOOD is tested before PERFECT
AttackTier_goodFirst(r) ==
    LET miss == r * 100 < 8 * PointerOne \/ r * 100 > 92 * PointerOne
        perfect == 47 * PointerOne <= r * 100 /\ r * 100 <= 53 * PointerOne
        good == 39 * PointerOne <= r * 100 /\ r * 100 <= 61 * PointerOne
    IN  IF miss THEN "MISS"
        ELSE IF good THEN "GOOD"
        ELSE IF perfect THEN "PERFECT"
        ELSE "NORMAL"

\* the tiers of _resolve_attack for a final pointer r
AttackTier(r) ==
    LET miss == r * 100 < 8 * PointerOne \/ r * 100 > 92 * PointerOne
        perfect == 47 * PointerOne <= r * 100 /\ r * 100 <= 53 * PointerOne
        good == 39 * PointerOne <= r * 100 /\ r * 100 <= 61 * PointerOne
    IN  IF miss THEN "MISS"
        ELSE IF perfect THEN "PERFECT"
        ELSE IF good THEN "GOOD"
        ELSE "NORMAL"

\* a PERFECT hit takes half of the enemy's hp
AttackDamage_heavy(r) ==
    LET tier == AttackTier(r)
    IN  IF tier = "MISS" THEN 0
        ELSE IF tier = "PERFECT" THEN 9
        ELSE IF tier = "GOOD" THEN 5
        ELSE 3

AttackDamage(r) ==
    LET tier == AttackTier(r)
    IN  IF tier = "MISS" THEN 0
        ELSE IF tier = "PERFECT" THEN 7
        ELSE IF tier = "GOOD" THEN 5
        ELSE 3

\* the enemy after _resolve_attack
AttackedEnemy(e, r) == clamp_enemy_stats([e EXCEPT !.hp = e.hp - AttackDamage(r)])

\* Mercy asks for the progress only
CanSpare_noKeyAct(e) == e.spare_progress >= SPARE_THRESHOLD

\* Mercy is open
CanSpare(e) == e.spare_progress >= SPARE_THRESHOLD /\ e.key_act_done

\* the quiet question counts as a key act too
TalkEffect_askIsKey(e, name, has_cloth) ==
    IF name = "hum"
    THEN [e EXCEPT !.mind = e.mind - 10, !.bond = e.bond + 18, !.key_act_done = TRUE]
    ELSE IF name = "ask"
    THEN [e EXCEPT !.bond = e.bond + 14, !.key_act_done = TRUE]
    ELSE IF name = "cloth"
    THEN IF has_cloth
         THEN [e EXCEPT !.bond = e.bond + 30, !.mind = e.mind - 5, !.key_act_done = TRUE]
         ELSE e
    ELSE [e EXCEPT !.mind = e.mind + 12, !.bond = e.bond - 8]

\* the enemy after the effect of a talk option, before the refresh
TalkEffect(e, name, has_cloth) ==
    IF name = "hum"
    THEN [e EXCEPT !.mind = e.mind - 10, !.bond = e.bond + 18, !.key_act_done = TRUE]
    ELSE IF name = "ask"
    THEN [e EXCEPT !.bond = e.bond + 14]
    ELSE IF name = "cloth"
    THEN IF has_cloth
         THEN [e EXCEPT !.bond = e.bond + 30, !.mind = e.mind - 5, !.key_act_done = TRUE]
         ELSE e
    ELSE [e EXCEPT !.mind = e.mind + 12, !.bond = e.bond - 8]

TalkText(name, has_cloth) ==
    IF name = "hum" THEN "talk_hum"
    ELSE IF name = "ask" THEN "talk_ask"
    ELSE IF name = "cloth" THEN (IF has_cloth THEN "talk_cloth" ELSE "talk_no_cloth")
    ELSE "talk_shout"

\* the enemy after _resolve_talk
TalkedEnemy(e, name, has_cloth) ==
    clamp_enemy_stats(refresh_spare_progress(TalkEffect(e, name, has_cloth)))

\* the dew heals beyond max_hp
HealedPlayer_noCap(p) == [p EXCEPT !.hp = p.hp + HEAL_AMOUNT]

\* the player after the healing dew
HealedPlayer(p) == [p EXCEPT !.hp = Min(p.max_hp, p.hp + HEAL_AMOUNT)]

\* the player after bullet damage dmg
DamagedPlayer(p, dmg) == [p EXCEPT !.hp = Max(0, p.hp - dmg)]

\* only a victory counts as a defeated monster
ResultRecord_victoryOnly(res, p) ==
    << [quit |-> FALSE, player_hp |-> p.hp,
        monster_defeated |-> (res = "victory"), outcome |-> res] >>

\* the record run returns once self.result is set
ResultRecord(res, p) ==
    << [quit |-> FALSE, player_hp |-> p.hp,
        monster_defeated |-> (res \in {"victory", "spared"}), outcome |-> res] >>

QuitRecord(p) ==
    << [quit |-> TRUE, player_hp |-> p.hp, monster_defeated |-> FALSE,
        outcome |-> None] >>

-----------------------------------------------------------------------------
(* The state after construction *)

\* the soul where __init__ puts it
SoulStart == [x |-> SoulX * 1000, y |-> SoulY * 1000, rect_x |-> SoulX, rect_y |-> SoulY]

\* the direction keys held: dx and dy of _update_soul_movement
SoulDirs == {<< dx, dy >> : dx \in {-1, 0, 1}, dy \in {-1, 0, 1}}

\* vec.normalize() * speed * dt in 1/1000 pixel; 7071/10000 stands for the
\* square root of 1/2 of a diagonal
SoulStep(dx, dy, dt) ==
    IF dx # 0 /\ dy # 0
    THEN << dx * ((((PLAYER_SPEED * 7071) \div 100) * dt) \div 100),
            dy * ((((PLAYER_SPEED * 7071) \div 100) * dt) \div 100) >>
    ELSE << dx * PLAYER_SPEED * dt, dy * PLAYER_SPEED * dt >>

\* the top margin is the margin of the other three sides
UpdateSoulMovement_evenMargins(pos, dx, dy, dt) ==
    LET step == SoulStep(dx, dy, dt)
    IN  [x |-> Max((BoxLeft + SOUL_MARGIN) * 1000,
                   Min((BoxLeft + BoxWidth - SOUL_MARGIN) * 1000, pos.x + step[1])),
         y |-> Max((BoxTop + SOUL_MARGIN) * 1000,
                   Min((BoxTop + BoxHeight - SOUL_MARGIN) * 1000, pos.y + step[2]))]

\* _update_soul_movement: the move and the clamp into the box
UpdateSoulMovement(pos, dx, dy, dt) ==
    LET step == SoulStep(dx, dy, dt)
    IN  [x |-> Max((BoxLeft + SOUL_MARGIN) * 1000,
                   Min((BoxLeft + BoxWidth - SOUL_MARGIN) * 1000, pos.x + step[1])),
         y |-> Max((BoxTop + SOUL_MARGIN + SOUL_TOP_EXTRA) * 1000,
                   Min((BoxTop + BoxHeight - SOUL_MARGIN) * 1000, pos.y + step[2]))]

InitWith(player_hp, player_max_hp, enemy_name) ==
    /\ state = "OBSERVE"
    /\ state_timer = OBSERVE_TIME
    /\ info = << "observe" >>
    /\ main_selected = 0
    /\ list_selected = 0
    /\ list_mode = None
    /\ feedback_to_enemy = FALSE
    /\ attack_pointer = 0
    /\ attack_dir = 1
    /\ attack_elapsed = 0
    /\ attack_locked = FALSE
    /\ bullets = NoBullets
    /\ bullet_timer = 0
    /\ hit_cooldown = 0
    /\ enemy_turn_count = 0
    /\ pressure_profile = get_enemy_pressure_profile(enemy_name)
    /\ player = InitPlayer(player_hp, player_max_hp)
    /\ enemy = EnemyState
    /\ inventory = BattleRuntimeInventory
    /\ result = None
    /\ ret = NoRet
    /\ since_hit = HIT_COOLDOWN
    /\ last_hits = 0
    /\ silent_hits = 0
    /\ arena = NoArena
    /\ soul = SoulStart

\* world_scene.py calls the scene with player_hp = player_max_hp = 20
Init == InitWith(20, 20, "spider")

-----------------------------------------------------------------------------
(* Handlers *)

\* the submode survives the feedback
SetFeedback_keepsMode(lines, go_enemy) ==
    /\ state' = "FEEDBACK"
    /\ list_mode' = list_mode
    /\ state_timer' = FEEDBACK_DELAY
    /\ info' = lines
    /\ feedback_to_enemy' = go_enemy

\* _set_feedback
SetFeedback(lines, go_enemy) ==
    /\ state' = "FEEDBACK"
    /\ list_mode' = None
    /\ state_timer' = FEEDBACK_DELAY
    /\ info' = lines
    /\ feedback_to_enemy' = go_enemy

\* _enter_player_menu
EnterPlayerMenu ==
    /\ state' = "PLAYER_MENU"
    /\ list_mode' = None
    /\ info' = << "choose_action" >>

\* _start_selected_action
StartSelectedAction ==
    IF main_selected = 0
    THEN /\ state' = "PLAYER_ACTION"
         /\ list_mode' = "attack"
         /\ attack_pointer' = 0
         /\ attack_dir' = 1
         /\ attack_elapsed' = 0
         /\ attack_locked' = FALSE
         /\ info' = << "attack_prompt" >>
         /\ UNCHANGED <<state_timer, list_selected, feedback_to_enemy, result>>
    ELSE IF main_selected = 1
    THEN /\ state' = "PLAYER_ACTION"
         /\ list_mode' = "talk"
         /\ list_selected' = 0
         /\ info' = << "talk_prompt" >>
         /\ UNCHANGED <<state_timer, feedback_to_enemy, result, attack_pointer,
                        attack_dir, attack_elapsed, attack_locked>>
    ELSE IF main_selected = 2
    THEN /\ state' = "PLAYER_ACTION"
         /\ list_mode' = "item"
         /\ list_selected' = 0
         /\ info' = << "item_prompt" >>
         /\ UNCHANGED <<state_timer, feedback_to_enemy, result, attack_pointer,
                        attack_dir, attack_elapsed, attack_locked>>
    ELSE IF CanSpare(enemy)
    THEN /\ info' = << "spared" >>
         /\ result' = "spared"
         /\ UNCHANGED <<state, list_mode, state_timer, list_selected,
                        feedback_to_enemy, attack_pointer, attack_dir,
                        attack_elapsed, attack_locked>>
    ELSE /\ SetFeedback(<< "mercy_rejected" >>, FALSE)
         /\ UNCHANGED <<list_selected, result, attack_pointer, attack_dir,
                        attack_elapsed, attack_locked>>

\* an option without effect does not end the turn
TalkGoEnemy_onlyWithEffect(name, has_cloth) == ~(name = "cloth" /\ ~has_cloth)

\* the go_enemy argument of _resolve_talk's call of _set_feedback
TalkGoEnemy(name, has_cloth) == TRUE

\* the count of the item is not looked at
HasItem_anyCount(inv, name) == get_item(inv, name) # 0

\* `item and item.count > 0` for the item get_item finds
HasItem(inv, name) ==
    get_item(inv, name) # 0 /\ inv[get_item(inv, name)].count > 0

\* _resolve_talk
ResolveTalk(name) ==
    LET cloth == get_item(inventory, "butiao")
        has_cloth == HasItem(inventory, "butiao")
        e == TalkedEnemy(enemy, name, has_cloth)
        text == << TalkText(name, has_cloth) >>
    IN  /\ inventory' = IF name = "cloth" /\ has_cloth
                        THEN [inventory EXCEPT ![cloth].count = @ - 1]
                        ELSE inventory
        /\ enemy' = e
        /\ SetFeedback(IF e.spare_progress >= SPARE_THRESHOLD
                       THEN Append(text, "can_spare") ELSE text,
                       TalkGoEnemy(name, has_cloth))
        /\ UNCHANGED player

\* the count of the item is not looked at
ItemVerdict_anyCount(inv, name) ==
    IF get_item(inv, name) = 0 THEN "used_up"
    ELSE IF name = "ganlu" THEN "heal"
    ELSE IF name = "butiao" THEN "needs_talk"
    ELSE "unusable"

\* the branch _resolve_item takes for the item called name
ItemVerdict(inv, name) ==
    IF get_item(inv, name) = 0 \/ inv[get_item(inv, name)].count <= 0 THEN "used_up"
    ELSE IF name = "ganlu" THEN "heal"
    ELSE IF name = "butiao" THEN "needs_talk"
    ELSE "unusable"

\* _resolve_item
ResolveItem(name) ==
    LET item == get_item(inventory, name)
    IN  IF ItemVerdict(inventory, name) = "used_up"
        THEN /\ SetFeedback(<< "item_used_up" >>, FALSE)
             /\ UNCHANGED <<inventory, player, enemy>>
        ELSE IF ItemVerdict(inventory, name) = "heal"
        THEN /\ inventory' = [inventory EXCEPT ![item].count = @ - 1]
             /\ player' = HealedPlayer(player)
             /\ SetFeedback(<< "heal" >>, TRUE)
             /\ UNCHANGED enemy
        ELSE IF ItemVerdict(inventory, name) = "needs_talk"
        THEN /\ SetFeedback(<< "cloth_needs_talk" >>, FALSE)
             /\ UNCHANGED <<inventory, player, enemy>>
        ELSE /\ SetFeedback(<< "item_unusable" >>, FALSE)
             /\ UNCHANGED <<inventory, player, enemy>>

-----------------------------------------------------------------------------
(* run: one event of the frame's event queue *)

dodgeVars == <<bullets, bullet_timer, hit_cooldown, enemy_turn_count,
               pressure_profile, since_hit, last_hits, silent_hits, arena, soul>>
attackVars == <<attack_pointer, attack_dir, attack_elapsed, attack_locked>>

\* Enter or Space skips the feedback as it skips the intro
EventHandler_confirmSkips(st, key) ==
    IF st \in {"OBSERVE", "FEEDBACK"} /\ key = "CONFIRM" THEN "enter_player_menu"
    ELSE IF st = "PLAYER_MENU" THEN "player_menu_keys"
    ELSE IF st = "PLAYER_ACTION" THEN "player_action_keys"
    ELSE "none"

\* _handle_event: the handler a KEYDOWN event of key is passed to
EventHandler(st, key) ==
    IF st = "OBSERVE" /\ key = "CONFIRM" THEN "enter_player_menu"
    ELSE IF st = "PLAYER_MENU" THEN "player_menu_keys"
    ELSE IF st = "PLAYER_ACTION" THEN "player_action_keys"
    ELSE "none"

\* _handle_event in OBSERVE: Enter or Space skips the intro
KeyObserve(key) ==
    /\ ret = NoRet
    /\ EventHandler(state, key) = "enter_player_menu"
    /\ EnterPlayerMenu
    /\ UNCHANGED <<state_timer, main_selected, list_selected, feedback_to_enemy,
                   attackVars, dodgeVars, player, enemy, inventory, result, ret>>

\* the index stops at the ends of the list
Wrap_clamped(index, step, n) == Max(0, Min(n - 1, index + step))

\* (index + step) % n, Python's % of a positive n
Wrap(index, step, n) == (index + step) % n

\* _handle_player_menu_keys
KeyPlayerMenu(key) ==
    /\ ret = NoRet
    /\ EventHandler(state, key) = "player_menu_keys"
    /\ IF key = "LEFT"
       THEN /\ main_selected' = Wrap(main_selected, -1, 4)
            /\ UNCHANGED <<state, state_timer, info, list_selected, list_mode,
                           feedback_to_enemy, attackVars, result>>
       ELSE IF key = "RIGHT"
       THEN /\ main_selected' = Wrap(main_selected, 1, 4)
            /\ UNCHANGED <<state, state_timer, info, list_selected, list_mode,
                           feedback_to_enemy, attackVars, result>>
       ELSE IF key = "CONFIRM"
       THEN /\ StartSelectedAction
            /\ UNCHANGED main_selected
       ELSE UNCHANGED <<state, state_timer, info, main_selected, list_selected,
                        list_mode, feedback_to_enemy, attackVars, result>>
    /\ UNCHANGED <<dodgeVars, player, enemy, inventory, ret>>

\* Escape stops the pointer as Enter does
AttackKeyLocks_escapeToo(key, locked) ==
    IF key \in {"CONFIRM", "ESCAPE"} THEN TRUE ELSE locked

\* attack mode: Enter or Space locks the pointer, any other key is dropped
AttackKeyLocks(key, locked) == IF key = "CONFIRM" THEN TRUE ELSE locked

\* _handle_player_action_keys during the attack minigame
KeyAttack(key) ==
    /\ ret = NoRet
    /\ EventHandler(state, key) = "player_action_keys"
    /\ list_mode = "attack"
    /\ attack_locked' = AttackKeyLocks(key, attack_locked)
    /\ UNCHANGED <<state, state_timer, info, main_selected, list_selected,
                   list_mode, feedback_to_enemy, attack_pointer, attack_dir,
                   attack_elapsed, dodgeVars, player, enemy, inventory, result, ret>>

\* _handle_player_action_keys in the talk list and the item list
KeyList(key) ==
    /\ ret = NoRet
    /\ EventHandler(state, key) = "player_action_keys"
    /\ list_mode # "attack"
    /\ LET options == ActiveOptions(list_mode, inventory)
       IN  IF key = "UP"
           THEN /\ list_selected' = Wrap(list_selected, -1, Len(options))
                /\ UNCHANGED <<state, state_timer, info, list_mode,
                               feedback_to_enemy, player, enemy, inventory>>
           ELSE IF key = "DOWN"
           THEN /\ list_selected' = Wrap(list_selected, 1, Len(options))
                /\ UNCHANGED <<state, state_timer, info, list_mode,
                               feedback_to_enemy, player, enemy, inventory>>
           ELSE IF key = "ESCAPE"
           THEN /\ EnterPlayerMenu
                /\ UNCHANGED <<state_timer, list_selected, feedback_to_enemy,
                               player, enemy, inventory>>
           ELSE IF key = "CONFIRM" /\ list_mode = "talk"
           THEN /\ ResolveTalk(options[list_selected + 1])
                /\ UNCHANGED list_selected
           ELSE IF key = "CONFIRM" /\ list_mode = "item"
           THEN /\ ResolveItem(options[list_selected + 1])
                /\ UNCHANGED list_selected
           ELSE UNCHANGED <<state, state_timer, info, list_selected, list_mode,
                            feedback_to_enemy, player, enemy, inventory>>
    /\ UNCHANGED <<main_selected, attackVars, dodgeVars, result, ret>>

\* _handle_event where no branch takes the key
KeyIgnored(key) ==
    /\ ret = NoRet
    /\ EventHandler(state, key) = "none"
    /\ UNCHANGED vars

\* run: a pygame.QUIT event
QuitEvent ==
    /\ ret = NoRet
    /\ ret' = QuitRecord(player)
    /\ UNCHANGED <<state, state_timer, info, main_selected, list_selected,
                   list_mode, feedback_to_enemy, attackVars, dodgeVars, player,
                   enemy, inventory, result>>

-----------------------------------------------------------------------------
(* run: the rest of the frame, _update(dt) and the test of self.result *)

\* run returns once _update leaves a result
Returned(res, p) == IF res # None THEN ResultRecord(res, p) ELSE NoRet

\* the increment is forgotten
NextTurnCount_kept(turn_count) == turn_count

\* self.enemy_turn_count += 1
NextTurnCount(turn_count) == turn_count + 1

\* _start_enemy_turn, with the draws of random.choice and random.uniform
StartEnemyTurn(pattern, timer) ==
    /\ state' = "ENEMY_BULLETS"
    /\ bullet_timer' = timer
    /\ enemy_turn_count' = NextTurnCount(enemy_turn_count)
    /\ bullets' = PatternBullets(pressure_profile, pattern,
                                 NextTurnCount(enemy_turn_count))
    /\ info' = << IF pattern = "corner" THEN "corner_drops" ELSE "top_threads" >>
    /\ silent_hits' = 0

\* the pointer turns at the upper end only
MovedPointer_noFloor(pointer, dir, dt) ==
    LET p == pointer + dir * dt * PointerPerMs
    IN  IF p >= PointerOne THEN << PointerOne, -1 >>
        ELSE << p, dir >>

\* the pointer after a frame of the minigame: <<pointer, direction>>
MovedPointer(pointer, dir, dt) ==
    LET p == pointer + dir * dt * PointerPerMs
    IN  IF p >= PointerOne THEN << PointerOne, -1 >>
        ELSE IF p <= 0 THEN << 0, 1 >>
        ELSE << p, dir >>

\* the cooldown is not consulted
DamageApplies_noCooldown(dmg, cooldown) == dmg > 0

\* the calls of _play_hit_sound in a dodge frame
HitSounds(applies, hit_count) == IF applies THEN hit_count ELSE 0

\* whether a frame's damage is applied, given the cooldown left after the frame
DamageApplies(dmg, cooldown) == dmg > 0 /\ cooldown <= 0

\* the phase timer is tested before the defeat
DodgeFrameEnd_timerFirst(defeat, expired) ==
    IF expired THEN "feedback"
    ELSE IF defeat THEN "defeat"
    ELSE "continue"

\* how _update leaves a dodge frame: the return on defeat comes first
DodgeFrameEnd(defeat, expired) ==
    IF defeat THEN "defeat"
    ELSE IF expired THEN "feedback"
    ELSE "continue"

\* the intro timer stands still
ObserveTimer_frozen(timer, dt) == timer

\* self.state_timer -= dt in OBSERVE
ObserveTimer(timer, dt) == timer - dt

\* _update in OBSERVE
FrameObserve(dt) ==
    /\ ret = NoRet
    /\ state = "OBSERVE"
    /\ state_timer' = ObserveTimer(state_timer, dt)
    /\ IF ObserveTimer(state_timer, dt) <= 0
       THEN EnterPlayerMenu
       ELSE UNCHANGED <<state, list_mode, info>>
    /\ ret' = Returned(result, player)
    /\ UNCHANGED <<main_selected, list_selected, feedback_to_enemy, attackVars,
                   dodgeVars, player, enemy, inventory, result>>

\* _resolve_attack for the final pointer r
ResolveAttack(r) ==
    /\ enemy' = AttackedEnemy(enemy, r)
    /\ SetFeedback(<< AttackTier(r) >>, TRUE)

\* _update during the attack minigame, _resolve_attack included
FrameAttack(dt) ==
    /\ ret = NoRet
    /\ state = "PLAYER_ACTION"
    /\ list_mode = "attack"
    /\ LET moved == MovedPointer(attack_pointer, attack_dir, dt)
       IN  /\ attack_elapsed' = attack_elapsed + dt
           /\ attack_pointer' = moved[1]
           /\ attack_dir' = moved[2]
           /\ IF attack_locked \/ attack_elapsed + dt >= ATTACK_DURATION
              THEN ResolveAttack(moved[1])
              ELSE UNCHANGED <<enemy, state, list_mode, state_timer, info,
                               feedback_to_enemy>>
    /\ ret' = Returned(result, player)
    /\ UNCHANGED <<main_selected, list_selected, attack_locked, dodgeVars,
                   player, inventory, result>>

\* the bullets still flying outlive the dodge phase
ClearedBullets_kept(b) == b

\* self.bullets.clear() when the dodge timer has run out
ClearedBullets(b) == NoBullets

\* _update in ENEMY_BULLETS, the direction keys held drawn from dirs
FrameBulletsMove(dt, max_hits, max_culled, dirs) ==
    /\ ret = NoRet
    /\ state = "ENEMY_BULLETS"
    /\ \E d \in dirs :
         LET moved == UpdateSoulMovement(soul, d[1], d[2], dt)
         IN  soul' = [x |-> moved.x, y |-> moved.y,
                      rect_x |-> moved.x \div 1000, rect_y |-> moved.y \div 1000]
    /\ \E o \in BulletOutcomes(bullets, max_hits, max_culled) :
         LET upd == update_bullets(bullets, o)
             cooldown == Max(0, hit_cooldown - dt)
             applies == DamageApplies(upd.damage, cooldown)
             p == IF applies THEN DamagedPlayer(player, upd.damage) ELSE player
             defeat == applies /\ p.hp <= 0
             expired == bullet_timer - dt <= 0
         IN  /\ bullet_timer' = bullet_timer - dt
             /\ hit_cooldown' = IF applies THEN HIT_COOLDOWN ELSE cooldown
             /\ since_hit' = IF applies THEN 0 ELSE Min(HIT_COOLDOWN, since_hit + dt)
             /\ last_hits' = upd.hit_count
             /\ silent_hits' = silent_hits + (upd.hit_count - HitSounds(applies, upd.hit_count))
             /\ player' = p
             /\ result' = IF defeat THEN "defeat" ELSE result
             /\ IF DodgeFrameEnd(defeat, expired) = "defeat"
                THEN /\ bullets' = upd.bullets
                     /\ info' = << "defeat" >>
                     /\ UNCHANGED <<state, list_mode, state_timer, feedback_to_enemy>>
                ELSE IF DodgeFrameEnd(defeat, expired) = "feedback"
                THEN /\ bullets' = ClearedBullets(upd.bullets)
                     /\ SetFeedback(<< "enemy_turn_over" >>, FALSE)
                ELSE /\ bullets' = upd.bullets
                     /\ info' = IF applies THEN << "player_hit" >> ELSE info
                     /\ UNCHANGED <<state, list_mode, state_timer, feedback_to_enemy>>
             /\ ret' = Returned(IF defeat THEN "defeat" ELSE result, p)
    /\ UNCHANGED <<main_selected, list_selected, attackVars, enemy_turn_count,
                   pressure_profile, enemy, inventory, arena>>

\* _update in ENEMY_BULLETS while no direction key is held
FrameBullets(dt, max_hits, max_culled) ==
    FrameBulletsMove(dt, max_hits, max_culled, {<< 0, 0 >>})

\* no feedback leads to an enemy phase
FeedbackExpiry_noEnemy(res, e, go_enemy) ==
    IF res # None THEN "end"
    ELSE IF e.hp <= 0 THEN "victory"
    ELSE "menu"

\* the enemy's hp is not tested
FeedbackExpiry_noVictory(res, e, go_enemy) ==
    IF res # None THEN "end"
    ELSE IF go_enemy THEN "enemy"
    ELSE "menu"

\* the enemy phase is tested before the enemy's hp
FeedbackExpiry_enemyFirst(res, e, go_enemy) ==
    IF res # None THEN "end"
    ELSE IF go_enemy THEN "enemy"
    ELSE IF e.hp <= 0 THEN "victory"
    ELSE "menu"

\* the go_enemy flag of the feedback is not looked at
FeedbackExpiry_flagIgnored(res, e, go_enemy) ==
    IF res # None THEN "end"
    ELSE IF e.hp <= 0 THEN "victory"
    ELSE "enemy"

\* what _update does once the feedback delay has expired
FeedbackExpiry(res, e, go_enemy) ==
    IF res # None THEN "end"
    ELSE IF e.hp <= 0 THEN "victory"
    ELSE IF go_enemy THEN "enemy"
    ELSE "menu"

\* _update in FEEDBACK
FrameFeedback(dt, max_turns) ==
    /\ ret = NoRet
    /\ state = "FEEDBACK"
    /\ state_timer' = state_timer - dt
    /\ IF state_timer - dt > 0 \/ FeedbackExpiry(result, enemy, feedback_to_enemy) = "end"
       THEN UNCHANGED <<state, list_mode, info, result, bullets, bullet_timer,
                        enemy_turn_count, silent_hits>>
       ELSE IF FeedbackExpiry(result, enemy, feedback_to_enemy) = "victory"
       THEN /\ info' = << "victory" >>
            /\ result' = "victory"
            /\ UNCHANGED <<state, list_mode, bullets, bullet_timer, enemy_turn_count,
                           silent_hits>>
       ELSE IF FeedbackExpiry(result, enemy, feedback_to_enemy) = "enemy"
       THEN /\ enemy_turn_count < max_turns
            /\ \E pattern \in {"corner", "top"}, timer \in BulletTimes :
                 StartEnemyTurn(pattern, timer)
            /\ UNCHANGED <<list_mode, result>>
       ELSE /\ EnterPlayerMenu
            /\ UNCHANGED <<result, bullets, bullet_timer, enemy_turn_count,
                           silent_hits>>
    /\ ret' = Returned(result', player)
    /\ UNCHANGED <<main_selected, list_selected, feedback_to_enemy, attackVars,
                   hit_cooldown, pressure_profile, since_hit, last_hits, arena, soul, player,
                   enemy, inventory>>

\* _update in PLAYER_MENU and in the talk and item lists: no branch applies
FrameIdle(dt) ==
    /\ ret = NoRet
    /\ \/ state = "PLAYER_MENU"
       \/ state = "PLAYER_ACTION" /\ list_mode # "attack"
    /\ ret' = Returned(result, player)
    /\ UNCHANGED <<state, state_timer, info, main_selected, list_selected,
                   list_mode, feedback_to_enemy, attackVars, dodgeVars, player,
                   enemy, inventory, result>>

Event == \E key \in Keys :
           \/ KeyObserve(key)
           \/ KeyPlayerMenu(key)
           \/ KeyAttack(key)
           \/ KeyList(key)
           \/ KeyIgnored(key)

\* a frame of dt ms in an encounter of at most max_turns enemy phases
Frame(dt, max_turns, max_hits, max_culled) ==
    \/ FrameObserve(dt)
    \/ FrameAttack(dt)
    \/ FrameBullets(dt, max_hits, max_culled)
    \/ FrameFeedback(dt, max_turns)
    \/ FrameIdle(dt)

-----------------------------------------------------------------------------
(* The encounter of a player who enters with 3 of 6 hp; bullets may hit *)

Next ==
    \/ Event
    \/ QuitEvent
    \/ \E dt \in DtSet : Frame(dt, MaxTurns, MaxHitsPerFrame, MaxCullPerFrame)

Spec == InitWith(3, 6, "spider") /\ [][Next]_vars

-----------------------------------------------------------------------------
(* The long encounter of a player who dodges every bullet *)

NextLong ==
    \/ Event
    \/ QuitEvent
    \/ \E dt \in DtSet : Frame(dt, MaxLongTurns, 0, 0)

SpecLong == Init /\ [][NextLong]_vars

-----------------------------------------------------------------------------
(* The encounter of a player who never picks Attack and dodges every bullet *)

NextTalk ==
    \/ \E key \in Keys :
        \/ KeyObserve(key)
        \/ KeyPlayerMenu(key) /\ ~(key = "CONFIRM" /\ main_selected = 0)
        \/ KeyList(key)
        \/ KeyIgnored(key)
    \/ QuitEvent
    \/ \E dt \in DtSet :
        \/ FrameObserve(dt)
        \/ FrameBullets(dt, 0, 0)
        \/ FrameFeedback(dt, MaxTalkTurns)
        \/ FrameIdle(dt)

SpecTalk == Init /\ [][NextTalk]_vars

-----------------------------------------------------------------------------
(* The scene constructed with any player_hp and player_max_hp *)

CallerHps == {0, 9}
CallerMaxHps == {0, 6}

InitCaller ==
    \E player_hp \in CallerHps, player_max_hp \in CallerMaxHps :
        InitWith(player_hp, player_max_hp, "spider")

NextCaller ==
    \/ Event
    \/ QuitEvent
    \/ \E dt \in DtSet : Frame(dt, 1, 1, 0)

SpecCaller == InitCaller /\ [][NextCaller]_vars

-----------------------------------------------------------------------------
(* One dodge phase in short and long frames.  The encounter starts in the  *)
(* state the scene is in after Enter, Right, Enter, Down, Enter: the intro *)
(* skipped and the second talk option committed before any frame.          *)

DodgeDts == {200, 400}

InitDodgeWith(player_hp, player_max_hp) ==
    /\ state = "FEEDBACK"
    /\ state_timer = FEEDBACK_DELAY
    /\ info = << "talk_ask" >>
    /\ main_selected = 1
    /\ list_selected = 1
    /\ list_mode = None
    /\ feedback_to_enemy = TRUE
    /\ attack_pointer = 0
    /\ attack_dir = 1
    /\ attack_elapsed = 0
    /\ attack_locked = FALSE
    /\ bullets = NoBullets
    /\ bullet_timer = 0
    /\ hit_cooldown = 0
    /\ enemy_turn_count = 0
    /\ pressure_profile = get_enemy_pressure_profile("spider")
    /\ player = InitPlayer(player_hp, player_max_hp)
    /\ enemy = TalkedEnemy(EnemyState, "ask", TRUE)
    /\ inventory = BattleRuntimeInventory
    /\ result = None
    /\ ret = NoRet
    /\ since_hit = HIT_COOLDOWN
    /\ last_hits = 0
    /\ silent_hits = 0
    /\ arena = NoArena
    /\ soul = SoulStart

\* the player enters with 3 of 6 hp
InitDodge == InitDodgeWith(3, 6)

NextDodge ==
    \/ \E key \in Keys :
        \/ KeyPlayerMenu(key)
        \/ KeyAttack(key)
        \/ KeyList(key)
        \/ KeyIgnored(key)
    \/ QuitEvent
    \/ \E dt \in DodgeDts :
        \/ FrameAttack(dt)
        \/ FrameBullets(dt, MaxHitsPerFrame, MaxCullPerFrame)
        \/ FrameFeedback(dt, 1)
        \/ FrameIdle(dt)

SpecDodge == InitDodge /\ [][NextDodge]_vars

\* the same dodge phase for a player who enters with 7 of 20 hp, the hp left
\* over from an earlier encounter
InitBatch == InitDodgeWith(7, 20)

\* the frames of that phase; the player presses no key the scene listens to
\* and no bullet leaves the box
NextBatch ==
    \/ \E key \in Keys : KeyIgnored(key)
    \/ QuitEvent
    \/ \E dt \in DodgeDts :
        \/ FrameBullets(dt, MaxHitsPerFrame, 0)
        \/ FrameFeedback(dt, 1)
        \/ FrameIdle(dt)

SpecBatch == InitBatch /\ [][NextBatch]_vars

-----------------------------------------------------------------------------
(* Two enemy phases of a player with 7 of 20 hp who may be hit once a    *)
(* frame and hums between the phases                                     *)

\* enemy phases of the encounter (SpecCarry)
CarryTurns == 2

NextCarry ==
    \/ \E key \in Keys :
        \/ KeyPlayerMenu(key) /\ key = "CONFIRM"
        \/ KeyList(key) /\ key = "CONFIRM"
        \/ KeyIgnored(key)
    \/ QuitEvent
    \/ \E dt \in DodgeDts :
        \/ FrameBullets(dt, 1, 0)
        \/ FrameFeedback(dt, CarryTurns)
        \/ FrameIdle(dt)

SpecCarry == InitBatch /\ [][NextCarry]_vars

\* a dodge phase in which the player steers the soul: the elapsed times run
\* from a stall that moves the soul freely to one that crosses the whole box
SoulDts == {1000, 2000}

InitSoul == InitDodgeWith(20, 20)

NextSoul ==
    \/ \E key \in Keys : KeyIgnored(key)
    \/ QuitEvent
    \/ \E dt \in SoulDts :
        \/ FrameBulletsMove(dt, 0, 0, SoulDirs)
        \/ FrameFeedback(dt, 1)
        \/ FrameIdle(dt)

SpecSoul == InitSoul /\ [][NextSoul]_vars

-----------------------------------------------------------------------------
(* _resolve_attack at every final pointer, for an enemy that k PERFECT     *)
(* attacks have hit before (hp 18, 11, 4)                                  *)

InitAttack ==
    \E r \in 0..PointerOne, k \in 0..2 :
        /\ state = "PLAYER_ACTION"
        /\ state_timer = 0
        /\ info = << "attack_prompt" >>
        /\ main_selected = 0
        /\ list_selected = 0
        /\ list_mode = "attack"
        /\ feedback_to_enemy = FALSE
        /\ attack_pointer = r
        /\ attack_dir = 1
        /\ attack_elapsed = 0
        /\ attack_locked = TRUE
        /\ bullets = NoBullets
        /\ bullet_timer = 0
        /\ hit_cooldown = 0
        /\ enemy_turn_count = k
        /\ pressure_profile = get_enemy_pressure_profile("spider")
        /\ player = PlayerState
        /\ enemy = [EnemyState EXCEPT !.hp = 18 - 7 * k]
        /\ inventory = BattleRuntimeInventory
        /\ result = None
        /\ ret = NoRet
        /\ since_hit = HIT_COOLDOWN
        /\ last_hits = 0
        /\ silent_hits = 0
        /\ arena = NoArena
        /\ soul = SoulStart

NextAttack ==
    /\ state = "PLAYER_ACTION"
    /\ list_mode = "attack"
    /\ ResolveAttack(attack_pointer)
    /\ UNCHANGED <<main_selected, list_selected, attackVars, dodgeVars, player,
                   inventory, result, ret>>

SpecAttack == InitAttack /\ [][NextAttack]_vars

-----------------------------------------------------------------------------
(* The pattern generator at every turn count, for both profiles: the       *)
(* feedback of a turn-ending action expires and the enemy phase starts.    *)

InitPattern ==
    \E turn_count \in 0..MaxTurnCount, enemy_name \in {"spider", "other"} :
        /\ state = "FEEDBACK"
        /\ state_timer = 0
        /\ info = << "talk_shout" >>
        /\ main_selected = 1
        /\ list_selected = 3
        /\ list_mode = None
        /\ feedback_to_enemy = TRUE
        /\ attack_pointer = 0
        /\ attack_dir = 1
        /\ attack_elapsed = 0
        /\ attack_locked = FALSE
        /\ bullets = NoBullets
        /\ bullet_timer = 0
        /\ hit_cooldown = 0
        /\ enemy_turn_count = turn_count
        /\ pressure_profile = get_enemy_pressure_profile(enemy_name)
        /\ player = PlayerState
        /\ enemy = TalkedEnemy(EnemyState, "shout", TRUE)
        /\ inventory = BattleRuntimeInventory
        /\ result = None
        /\ ret = NoRet
        /\ since_hit = HIT_COOLDOWN
        /\ last_hits = 0
        /\ silent_hits = 0
        /\ arena = NoArena
        /\ soul = SoulStart

NextPattern == \E dt \in DtSet : FrameFeedback(dt, MaxTurnCount + 1)

SpecPattern == InitPattern /\ [][NextPattern]_vars

-----------------------------------------------------------------------------
(* update_bullets applied to lists of one or two positioned bullets around *)
(* the soul, the bottom edge and the right edge of the box                 *)

\* update_bullets calls on one list
MaxCalls == 2
\* bullet centres, half pixels
BulletXs == {1514, 2000, 2590, 2640}
BulletYs == {1338, 1480, 1501, 1502, 1520, 1532}
\* bullet velocities, pixels per second
BulletVxs == {-40, 0}
BulletVys == {0, 240}
\* widths of the square soul sprite, pixels
SoulSizes == {16, 32}
\* the time of an update_bullets call, ms
CallMs == 50

battle_box == Rect(BoxLeft, BoxTop, BoxWidth, BoxHeight)

\* _soul_rect: the sprite's rectangle centred on the soul
SoulRect(x, y, size) == Rect(x - size \div 2, y - size \div 2, size, size)

PositionedBullets ==
    [x2 : BulletXs, y2 : BulletYs, vx : BulletVxs, vy : BulletVys,
     radius : {6}, damage : {2}]

InitBullets ==
    \E size \in SoulSizes, len \in 1..2 :
    \E list \in [1..len -> PositionedBullets] :
        /\ state = "ENEMY_BULLETS"
        /\ state_timer = 0
        /\ info = << "corner_drops" >>
        /\ main_selected = 0
        /\ list_selected = 0
        /\ list_mode = None
        /\ feedback_to_enemy = TRUE
        /\ attack_pointer = 0
        /\ attack_dir = 1
        /\ attack_elapsed = 0
        /\ attack_locked = FALSE
        /\ bullets = [spawn_corner_drops(len) EXCEPT !.radius = 6]
        /\ bullet_timer = 3500
        /\ hit_cooldown = 0
        /\ enemy_turn_count = 1
        /\ pressure_profile = get_enemy_pressure_profile("spider")
        /\ player = PlayerState
        /\ enemy = EnemyState
        /\ inventory = BattleRuntimeInventory
        /\ result = None
        /\ ret = NoRet
        /\ since_hit = HIT_COOLDOWN
        /\ last_hits = 0
        /\ silent_hits = 0
        /\ arena = [list |-> list, player_rect |-> SoulRect(SoulX, SoulY, size),
                    calls |-> 0, damage |-> 0, hit_count |-> 0, culled |-> 0]
        /\ soul = SoulStart

\* one call update_bullets(self.bullets, dt, self.battle_box, self._soul_rect())
UpdateBulletsCall(dt) ==
    /\ arena # NoArena
    /\ arena.calls < MaxCalls
    /\ LET upd == UpdateBulletList(arena.list, dt, battle_box, arena.player_rect)
           culled == Len(arena.list) - Len(upd.alive) - upd.hit_count
       IN  /\ arena' = [arena EXCEPT !.list = upd.alive,
                                     !.calls = @ + 1,
                                     !.damage = upd.damage,
                                     !.hit_count = upd.hit_count,
                                     !.culled = culled]
           /\ bullets' = update_bullets(bullets,
                             [hits |-> upd.hit_count, culled |-> culled]).bullets
    /\ UNCHANGED <<state, state_timer, info, main_selected, list_selected,
                   list_mode, feedback_to_enemy, attackVars, bullet_timer,
                   hit_cooldown, enemy_turn_count, pressure_profile, since_hit,
                   last_hits, silent_hits, soul, player, enemy, inventory, result,
                   ret>>

NextBullets == UpdateBulletsCall(CallMs)

SpecBullets == InitBullets /\ [][NextBullets]_vars

-----------------------------------------------------------------------------
(* The encounter of a player who only opens the item list or asks for Mercy;
   bullets may hit.  The two dews allow two enemy phases at most. *)

NextItem ==
    \/ \E key \in Keys :
        \/ KeyObserve(key)
        \/ KeyPlayerMenu(key) /\ ~(key = "CONFIRM" /\ main_selected \in {0, 1})
        \/ KeyList(key)
        \/ KeyIgnored(key)
    \/ QuitEvent
    \/ \E dt \in DtSet :
        \/ FrameObserve(dt)
        \/ FrameBullets(dt, MaxHitsPerFrame, 0)
        \/ FrameFeedback(dt, MaxLongTurns)
        \/ FrameIdle(dt)

SpecItem == Init /\ [][NextItem]_vars

-----------------------------------------------------------------------------
(* The encounter of a player who enters with 12 of 20 hp, talks and uses *)
(* items, never attacks and dodges every bullet                         *)

NextGive ==
    \/ \E key \in Keys :
        \/ KeyObserve(key)
        \/ KeyPlayerMenu(key) /\ ~(key = "CONFIRM" /\ main_selected = 0)
        \/ KeyList(key)
        \/ KeyIgnored(key)
    \/ QuitEvent
    \/ \E dt \in DtSet :
        \/ FrameObserve(dt)
        \/ FrameBullets(dt, 0, 0)
        \/ FrameFeedback(dt, MaxLongTurns)
        \/ FrameIdle(dt)

SpecGive == InitWith(12, 20, "spider") /\ [][NextGive]_vars

-----------------------------------------------------------------------------
(* The encounter of a player who only attacks and dodges every bullet; the *)
(* frames of the minigame run from an ordinary frame to a stall that takes *)
(* the pointer across the whole bar                                        *)

MinigameDts == {400, 900}

NextMinigame ==
    \/ \E key \in Keys :
        \/ KeyObserve(key)
        \/ KeyPlayerMenu(key) /\ key = "CONFIRM" /\ main_selected = 0
        \/ KeyAttack(key)
        \/ KeyIgnored(key)
    \/ QuitEvent
    \/ \E dt \in MinigameDts : FrameAttack(dt)
    \/ \E dt \in DtSet :
        \/ FrameObserve(dt)
        \/ FrameBullets(dt, 0, 0)
        \/ FrameFeedback(dt, MaxLongTurns)
        \/ FrameIdle(dt)

SpecMinigame == Init /\ [][NextMinigame]_vars

-----------------------------------------------------------------------------
(* The encounter of a player with 3 of 6 hp who attacks, may be hit once a *)
(* frame, and lets go of the keyboard after LiveTurns enemy phases; no     *)
(* QUIT event arrives, and run calls _update once in every pass of its     *)
(* loop, which is the fairness of the frames                               *)

\* enemy phases after which the player presses no key any more (SpecLive)
LiveTurns == 2

LiveEvent ==
    /\ enemy_turn_count <= LiveTurns
    /\ \E key \in Keys :
        \/ KeyObserve(key)
        \/ KeyPlayerMenu(key) /\ key = "CONFIRM" /\ main_selected = 0
        \/ KeyAttack(key)
        \/ KeyIgnored(key)

LiveFrame == \E dt \in DtSet : Frame(dt, LiveTurns + 1, 1, 0)

NextLive == LiveEvent \/ LiveFrame

SpecLive == InitWith(3, 6, "spider") /\ [][NextLive]_vars /\ WF_vars(LiveFrame)

-----------------------------------------------------------------------------
(* Claims *)

\* C1: over every step of an encounter the enemy's spare_progress never
\* decreases, also on the steps where bond decreases.
C1_SpareProgressNeverDecreases ==
    [][enemy'.spare_progress >= enemy.spare_progress]_vars

\* the hostile option has lowered bond below the progress it had earned
C1_Witness ==
    /\ info[1] = "talk_shout"
    /\ enemy.bond < enemy.spare_progress
    /\ enemy.spare_progress > 0

\* C2: the outcome 'spared' is produced only by confirming Mercy in
\* PLAYER_MENU while spare_progress >= 60 and key_act_done; whenever the
\* outcome is 'spared' both conditions hold; and Mercy confirmed with both
\* conditions true always sets the outcome 'spared'.
C2_SparedOnlyByOpenMercy ==
    [][/\ (result' = "spared" /\ result # "spared")
            => /\ KeyPlayerMenu("CONFIRM")
               /\ main_selected = 3
               /\ enemy.spare_progress >= 60 /\ enemy.key_act_done
       /\ (KeyPlayerMenu("CONFIRM") /\ main_selected = 3
            /\ enemy.spare_progress >= 60 /\ enemy.key_act_done)
            => result' = "spared"
       /\ (result' = "spared" \/ (ret' # NoRet /\ ret'[1].outcome = "spared"))
            => (enemy'.spare_progress >= 60 /\ enemy'.key_act_done)
      ]_vars

\* the run has returned 'spared'
C2_Witness ==
    /\ ret # NoRet
    /\ ret[1].outcome = "spared"
    /\ ret[1].monster_defeated

\* C3: Mercy confirmed in PLAYER_MENU while spare_progress < 60 or
\* key_act_done is false is rejected with a message, the phase remains
\* PLAYER_MENU, and no player stat, enemy stat, inventory count or turn
\* counter changes.
C3_RejectedMercyStaysInMenu ==
    [][(KeyPlayerMenu("CONFIRM") /\ main_selected = 3
        /\ ~(enemy.spare_progress >= 60 /\ enemy.key_act_done))
        => /\ info' = << "mercy_rejected" >>
           /\ state' = "PLAYER_MENU"
           /\ UNCHANGED <<player, enemy, inventory, enemy_turn_count>>
      ]_vars

\* C4: after Mercy is accepted the run returns 'spared' only after a
\* FEEDBACK phase whose delay has expired, not in the frame in which Mercy
\* was confirmed.
C4_SparedReturnsOnFeedbackExpiry ==
    (ret # NoRet /\ ret[1].outcome = "spared")
        => (state = "FEEDBACK" /\ state_timer <= 0)

\* C5: an attack resolution that brings enemy hp to 0 enters FEEDBACK, and
\* when the feedback delay expires the outcome is set to 'victory' without
\* ENEMY_BULLETS or PLAYER_MENU in between; 'victory' is set in no other
\* way and only while enemy hp is 0.
C5_VictoryAfterFeedback ==
    [][/\ (enemy.hp > 0 /\ enemy'.hp = 0)
            => /\ state = "PLAYER_ACTION" /\ list_mode = "attack"
               /\ state' = "FEEDBACK" /\ state_timer' = FEEDBACK_DELAY
       /\ (state = "FEEDBACK" /\ enemy.hp = 0)
            => /\ state' = "FEEDBACK"
               /\ (state_timer' # state_timer /\ state_timer' <= 0)
                    => (result' = "victory" /\ ret' # NoRet
                        /\ ret'[1].outcome = "victory")
       /\ (result' = "victory" /\ result # "victory")
            => (state = "FEEDBACK" /\ state_timer > 0 /\ state_timer' <= 0)
       /\ result' = "victory" => enemy'.hp = 0
      ]_vars

\* three PERFECT attacks, two enemy phases between them, and the victory
C5_Witness ==
    /\ ret # NoRet
    /\ ret[1].outcome = "victory"
    /\ enemy_turn_count = 2
    /\ info = << "victory" >>

\* C6: in ENEMY_BULLETS, in the frame in which applied bullet damage brings
\* player hp to 0 the outcome is set to 'defeat' and the run returns at the
\* end of that frame, also when the phase timer expires in that frame (no
\* transition to FEEDBACK); 'defeat' is set only when player hp is 0.
C6_DefeatInTheDamageFrame ==
    [][/\ (state = "ENEMY_BULLETS" /\ player.hp > 0 /\ player'.hp = 0)
            => /\ result' = "defeat"
               /\ ret' # NoRet /\ ret'[1].outcome = "defeat"
               /\ state' = "ENEMY_BULLETS"
       /\ (result' = "defeat" /\ result # "defeat")
            => (state = "ENEMY_BULLETS" /\ player.hp > 0)
       /\ result' = "defeat" => player'.hp = 0
      ]_vars

\* the defeat in the frame in which the phase timer expired
C6_Witness ==
    /\ ret # NoRet
    /\ ret[1].outcome = "defeat"
    /\ bullet_timer <= 0
    /\ state = "ENEMY_BULLETS"

\* C7: in the dodge phase, after a frame in which bullet damage was applied
\* no later frame reduces player hp until at least 0.22 s of dodge-phase
\* time has elapsed (a collision inside that window leaves hp unchanged),
\* and every damage application resets the cooldown to 0.22 s.
C7_NoDamageInsideCooldown ==
    [][player'.hp < player.hp
        => /\ state = "ENEMY_BULLETS"
           /\ since_hit + (bullet_timer - bullet_timer') >= 220
           /\ hit_cooldown' = 220
      ]_vars

\* a frame 200 ms after a damage application in which bullets collided
C7_Witness ==
    /\ state = "ENEMY_BULLETS"
    /\ last_hits > 0
    /\ since_hit = 200
    /\ hit_cooldown = 20

\* C8: in every reachable state, for all caller-supplied player_hp and
\* player_max_hp, 0 <= player.hp <= player.max_hp and
\* 0 <= enemy.hp <= enemy.max_hp.
C8_HpWithinBounds ==
    /\ 0 <= player.hp /\ player.hp <= player.max_hp
    /\ 0 <= enemy.hp /\ enemy.hp <= enemy.max_hp

\* C9: for every final pointer ratio r in [0,1] the attack resolution deals
\* 0 if r < 0.08 or r > 0.92, 7 if 0.47 <= r <= 0.53, 5 if 0.39 <= r <= 0.61
\* and not PERFECT, 3 otherwise; enemy hp becomes max(0, hp - damage).
\* In 1/5000: 0.08 is 400, 0.39 is 1950, 0.47 is 2350, 0.53 is 2650,
\* 0.61 is 3050 and 0.92 is 4600.
C9_AttackDamageByTier ==
    [][(state = "PLAYER_ACTION" /\ list_mode = "attack" /\ state' = "FEEDBACK")
        => LET r == attack_pointer'
               dmg == IF r \in 0..399 \cup 4601..5000 THEN 0
                      ELSE IF r \in 2350..2650 THEN 7
                      ELSE IF r \in 1950..2349 \cup 2651..3050 THEN 5
                      ELSE 3
           IN  /\ r \in 0..5000
               /\ enemy'.hp = (IF enemy.hp - dmg > 0 THEN enemy.hp - dmg ELSE 0)
               /\ (r = 2500 /\ enemy.hp >= 7) => enemy'.hp = enemy.hp - 7
               /\ (r = 2000 /\ enemy.hp >= 5) => enemy'.hp = enemy.hp - 5
               /\ (r = 3500 /\ enemy.hp >= 3) => enemy'.hp = enemy.hp - 3
      ]_vars

\* the resolution at r = 0.50 of an attack on an enemy of 4 hp
C9_Witness ==
    /\ state = "FEEDBACK"
    /\ attack_pointer = 2500
    /\ info = << "PERFECT" >>
    /\ enemy.hp = 0
    /\ enemy_turn_count = 2

\* C10: for the default and the enemy-specific profile and every turn
\* count, the number of bullets generated on entering the enemy phase never
\* exceeds the cap of the chosen family (corner_cap or top_cap), and every
\* bullet's radius after the size boost is at most 14.
C10_BulletCountAndRadiusCapped ==
    state = "ENEMY_BULLETS"
        => /\ bullets.kind = "corner" => bullets.n <= pressure_profile.corner_cap
           /\ bullets.kind = "top" => bullets.n <= pressure_profile.top_cap
           /\ bullets.kind \in {"corner", "top"}
           /\ bullets.radius <= 14

\* a late phase of the default profile whose amount the cap has cut
C10_Witness ==
    /\ state = "ENEMY_BULLETS"
    /\ pressure_profile = DEFAULT_PRESSURE_PROFILE
    /\ bullets.kind = "top"
    /\ bullets.n = 86
    /\ enemy_turn_count >= 10

\* C11: after any single update_bullets call no bullet whose hitbox (after
\* the position advance) lies entirely outside the arena rectangle inflated
\* by 30 units on all sides remains in the bullet list.
C11_NoBulletLeftOutsideMargin ==
    (arena # NoArena /\ arena.calls >= 1)
        => \A i \in 1..Len(arena.list) :
             LET r == BulletRect(arena.list[i])
             IN  ~ \/ r.left + r.width <= 252 - 30
                   \/ r.left >= 252 + 1032 + 30
                   \/ r.top + r.height <= 322 - 30
                   \/ r.top >= 322 + 408 + 30

\* one call has culled a bullet and kept another that lies below the box
C11_Witness ==
    /\ arena # NoArena
    /\ arena.calls = 1
    /\ arena.culled = 1
    /\ Len(arena.list) = 1
    /\ BulletRect(arena.list[1]).top >= 322 + 408

C13_QuitReturnsCurrentOutcome ==
    (ret # NoRet /\ ret[1].quit = TRUE)
        => /\ ret[1].player_hp = player.hp
           /\ ret[1].outcome = result

\* C14: confirming an item whose count is 0, or the cloth strip, is rejected:
\* no inventory count, player stat or enemy stat changes, the message is shown
\* with go_enemy false, and from that message the machine goes back to
\* PLAYER_MENU without an ENEMY_BULLETS phase and without a change of the turn
\* counter.
C14_RejectedItemChangesNothing ==
    [][ /\ \A i \in 1..Len(inventory) :
              ( /\ state = "PLAYER_ACTION"
                /\ list_mode = "item"
                /\ list_selected = i - 1
                /\ KeyList("CONFIRM")
                /\ (inventory[i].count = 0 \/ inventory[i].name = "butiao") )
              => /\ inventory' = inventory
                 /\ player' = player
                 /\ enemy' = enemy
                 /\ enemy_turn_count' = enemy_turn_count
                 /\ bullets' = bullets
                 /\ result' = result
                 /\ state' = "FEEDBACK"
                 /\ feedback_to_enemy' = FALSE
                 /\ info' = IF inventory[i].count = 0
                             THEN << "item_used_up" >>
                             ELSE << "cloth_needs_talk" >>
        /\ ( /\ state = "FEEDBACK"
             /\ info \in { << "item_used_up" >>, << "cloth_needs_talk" >> } )
              => /\ state' \in {"FEEDBACK", "PLAYER_MENU"}
                 /\ inventory' = inventory
                 /\ player' = player
                 /\ enemy' = enemy
                 /\ enemy_turn_count' = enemy_turn_count
                 /\ bullets' = bullets
      ]_vars

C14_Witness ==
    /\ state = "FEEDBACK"
    /\ info = << "item_used_up" >>
    /\ feedback_to_enemy = FALSE
    /\ inventory[1].count = 0
    /\ enemy_turn_count = 2
    /\ player.hp = 20

\* C15: after any sequence of navigation keys the main menu index is in 0..3
\* and the list index is a valid index of the active option list (4
\* persuasion options or the inventory entries); left/right and up/down wrap
\* around the ends of the list, so that left-then-right and four lefts give
\* the index back.
C15_NavigationWraps ==
    /\ main_selected = 0
    /\ [][ LET n == IF list_mode = "talk" THEN 4 ELSE Len(inventory)
           IN  /\ main_selected' \in 0..3
               /\ Wrap(Wrap(main_selected', -1, 4), 1, 4) = main_selected'
               /\ Wrap(Wrap(Wrap(Wrap(main_selected', -1, 4), -1, 4), -1, 4),
                       -1, 4) = main_selected'
               /\ (state' = "PLAYER_ACTION" /\ list_mode' = "talk")
                     => list_selected' \in 0..3
               /\ (state' = "PLAYER_ACTION" /\ list_mode' = "item")
                     => list_selected' \in 0..(Len(inventory') - 1)
               /\ KeyPlayerMenu("LEFT")
                     => main_selected' = IF main_selected = 0 THEN 3
                                         ELSE main_selected - 1
               /\ KeyPlayerMenu("RIGHT")
                     => main_selected' = IF main_selected = 3 THEN 0
                                         ELSE main_selected + 1
               /\ KeyList("UP")
                     => list_selected' = IF list_selected = 0 THEN n - 1
                                         ELSE list_selected - 1
               /\ KeyList("DOWN")
                     => list_selected' = IF list_selected = n - 1 THEN 0
                                         ELSE list_selected + 1
         ]_vars

C15_Witness ==
    /\ state = "PLAYER_ACTION"
    /\ list_mode = "talk"
    /\ list_selected = 3
    /\ main_selected = 1
    /\ enemy_turn_count = 0

C17_FeedbackExpiryBranches ==
    [][ /\ ( /\ state = "FEEDBACK"
             /\ result = None
             /\ state_timer' # state_timer
             /\ state_timer' <= 0 )
              => IF enemy.hp <= 0
                 THEN result' = "victory" /\ state' = "FEEDBACK"
                 ELSE IF feedback_to_enemy = TRUE
                 THEN result' = None /\ state' = "ENEMY_BULLETS"
                 ELSE result' = None /\ state' = "PLAYER_MENU"
        /\ (state' = "ENEMY_BULLETS" /\ state # "ENEMY_BULLETS")
              => /\ state = "FEEDBACK"
                 /\ feedback_to_enemy = TRUE
                 /\ enemy.hp > 0
                 /\ result = None
        /\ (state' = "PLAYER_ACTION" /\ state # "PLAYER_ACTION")
              => state = "PLAYER_MENU"
        /\ state' = "OBSERVE" => state = "OBSERVE"
      ]_vars

C17_Witness ==
    /\ state = "ENEMY_BULLETS"
    /\ state_timer <= 0
    /\ bullet_timer \in BulletTimes
    /\ feedback_to_enemy = TRUE
    /\ enemy.hp = 4
    /\ enemy_turn_count = 2
    /\ result = None

\* C18: the turn counter starts at 0, increases by exactly 1 on each entry into
\* ENEMY_BULLETS and changes at no other step; at each entry the bullet list
\* holds the newly generated bullets of one pattern and nothing else.
C18_TurnCounterCountsEnemyPhases ==
    /\ enemy_turn_count = 0
    /\ [][ /\ (state' = "ENEMY_BULLETS" /\ state # "ENEMY_BULLETS")
                 => /\ enemy_turn_count' = enemy_turn_count + 1
                    /\ \E pattern \in {"corner", "top"} :
                          bullets' = PatternBullets(pressure_profile, pattern,
                                                    enemy_turn_count')
           /\ enemy_turn_count' # enemy_turn_count
                 => (state' = "ENEMY_BULLETS" /\ state # "ENEMY_BULLETS")
         ]_vars

C18_Witness ==
    /\ state = "ENEMY_BULLETS"
    /\ enemy_turn_count = 3
    /\ bullet_timer \in BulletTimes
    /\ bullets = PatternBullets(pressure_profile, "top", 3)

\* C19: on entering the enemy phase with turn count t, pressure is
\* max(0, t - 1); the number of bullets is min(cap, round(base_amount *
\* (1 + pressure * growth_rate))) of the chosen family; every radius is
\* min(14, base radius + min(size_boost_cap, pressure // size_boost_step_turns));
\* every velocity is multiplied by 1 + min(speed_growth_cap, pressure *
\* speed_growth_rate).  In the first enemy phase (t = 1) the count is the base
\* amount and radius and velocity are unscaled.  (Rates in thousandths; the
\* base radius is 6 for the corner drops and 5 for the top threads.)
C19_PatternFollowsFormulas ==
    state = "ENEMY_BULLETS" =>
        LET t == enemy_turn_count
            pr == pressure_profile
            corner == bullets.kind = "corner"
            pressure == IF t - 1 > 0 THEN t - 1 ELSE 0
            base == IF corner THEN pr.corner_base_amount ELSE pr.top_base_amount
            growth == IF corner THEN pr.corner_growth ELSE pr.top_growth
            cap == IF corner THEN pr.corner_cap ELSE pr.top_cap
            exact == base * (1000 + pressure * growth)
            base_radius == IF corner THEN 6 ELSE 5
            steps == pressure \div pr.size_boost_step_turns
            boost == IF steps < pr.size_boost_cap THEN steps ELSE pr.size_boost_cap
            speed == pressure * pr.speed_growth
            speed_up == IF speed < pr.speed_growth_cap THEN speed
                        ELSE pr.speed_growth_cap
        IN  /\ \E n \in 0..200 :
                  /\ 1000 * n - exact <= 500
                  /\ exact - 1000 * n <= 500
                  /\ (1000 * n - exact \in {500, -500}) => n % 2 = 0
                  /\ bullets.n = IF n < cap THEN n ELSE cap
            /\ bullets.radius = IF base_radius + boost < 14
                                 THEN base_radius + boost ELSE 14
            /\ bullets.vel_scale = 1000 + speed_up
            /\ t = 1 => /\ bullets.n = base
                        /\ bullets.radius = base_radius
                        /\ bullets.vel_scale = 1000

\* the fifth phase of the spider: pressure 4, 34 * 1.8 = 61.2 corner drops
C19_Witness ==
    /\ state = "ENEMY_BULLETS"
    /\ enemy_turn_count = 5
    /\ pressure_profile = SPIDER_PRESSURE_PROFILE
    /\ bullets.kind = "corner"
    /\ bullets.n = 61
    /\ bullets.radius = 8
    /\ bullets.vel_scale = 1220

\* C20: for each pattern family and each profile, the bullet amount, the size
\* boost and the speed scale do not decrease from one turn count to the next,
\* and each is constant at its cap from some turn on: the amount and the speed
\* scale from turn 9, the size boost from turn 13.
C20_GrowthMonotoneAndCapped ==
    state = "ENEMY_BULLETS" =>
        LET t == enemy_turn_count
            pr == pressure_profile
            corner == bullets.kind = "corner"
            base_radius == IF corner THEN 6 ELSE 5
            next == PatternBullets(pr, bullets.kind, t + 1)
        IN  /\ bullets.n <= next.n
            /\ bullets.radius - base_radius <= next.radius - base_radius
            /\ bullets.vel_scale <= next.vel_scale
            /\ t >= 9 => /\ bullets.n = IF corner THEN pr.corner_cap ELSE pr.top_cap
                         /\ bullets.vel_scale = 1000 + pr.speed_growth_cap
            /\ t >= 13 => bullets.radius - base_radius = pr.size_boost_cap

\* the default profile at turn 13: every quantity sits at its cap
C20_Witness ==
    /\ state = "ENEMY_BULLETS"
    /\ enemy_turn_count = 13
    /\ pressure_profile = DEFAULT_PRESSURE_PROFILE
    /\ bullets.kind = "corner"
    /\ bullets.n = 72
    /\ bullets.radius = 12
    /\ bullets.vel_scale = 1400

\* C21: in every reachable state the enemy's mind is in [0, max_mind], its
\* bond in [0, max_bond], spare_progress in [0, 100] and spare_progress >=
\* bond; after any persuasion commit spare_progress is the maximum of its
\* previous value and the clamped new bond.
C21_EnemyStatsInRange ==
    /\ enemy.mind \in 0..enemy.max_mind
    /\ enemy.bond \in 0..enemy.max_bond
    /\ enemy.spare_progress \in 0..100
    /\ enemy.spare_progress >= enemy.bond
    /\ [][ /\ enemy'.mind \in 0..enemy'.max_mind
           /\ enemy'.bond \in 0..enemy'.max_bond
           /\ enemy'.spare_progress \in 0..100
           /\ enemy'.spare_progress >= enemy'.bond
           /\ ( /\ state = "PLAYER_ACTION"
                /\ list_mode = "talk"
                /\ KeyList("CONFIRM") )
                 => LET option == TalkOptions[list_selected + 1]
                        gain == IF option = "hum" THEN 18
                                ELSE IF option = "ask" THEN 14
                                ELSE IF option = "cloth"
                                THEN (IF inventory[2].count > 0 THEN 30 ELSE 0)
                                ELSE -8
                        raw == enemy.bond + gain
                        new_bond == IF raw < 0 THEN 0
                                    ELSE IF raw > 100 THEN 100 ELSE raw
                    IN  /\ enemy'.bond = new_bond
                        /\ enemy'.spare_progress =
                               IF enemy.spare_progress > new_bond
                               THEN enemy.spare_progress ELSE new_bond
         ]_vars

\* humming and then the hostile option: the bond falls, the progress stays
C21_Witness ==
    /\ state = "FEEDBACK"
    /\ info = << "talk_shout" >>
    /\ enemy.bond = 10
    /\ enemy.spare_progress = 18
    /\ enemy.mind = 47

\* C22: key_act_done starts false, becomes true only by committing the humming
\* option or the cloth-giving option while a cloth strip is available
\* (count > 0), and once true is never reset to false.
C22_KeyActOnlyByHumOrCloth ==
    /\ enemy.key_act_done = FALSE
    /\ [][ /\ enemy.key_act_done = TRUE => enemy'.key_act_done = TRUE
           /\ (enemy.key_act_done = FALSE /\ enemy'.key_act_done = TRUE)
                 => /\ state = "PLAYER_ACTION"
                    /\ list_mode = "talk"
                    /\ state' = "FEEDBACK"
                    /\ \/ TalkOptions[list_selected + 1] = "hum"
                       \/ /\ TalkOptions[list_selected + 1] = "cloth"
                          /\ inventory[2].name = "butiao"
                          /\ inventory[2].count > 0
         ]_vars

\* the cloth was handed over and the hostile option chosen afterwards
C22_Witness ==
    /\ state = "FEEDBACK"
    /\ info = << "talk_shout" >>
    /\ enemy.key_act_done = TRUE
    /\ inventory[2].count = 0
    /\ enemy.bond = 22

\* C23: every committed persuasion option enters FEEDBACK with go_enemy true,
\* the cloth-giving option chosen with no cloth strip left included: then no
\* enemy stat and no inventory count changes, and the enemy phase still
\* follows (with no outcome set, the feedback of a persuasion option is left
\* for ENEMY_BULLETS only).
C23_TalkEndsTheTurn ==
    [][ /\ ( /\ state = "PLAYER_ACTION"
             /\ list_mode = "talk"
             /\ KeyList("CONFIRM") )
              => /\ state' = "FEEDBACK"
                 /\ feedback_to_enemy' = TRUE
                 /\ state_timer' = 1200
                 /\ ( /\ TalkOptions[list_selected + 1] = "cloth"
                      /\ inventory[2].count = 0 )
                       => /\ enemy' = enemy
                          /\ inventory' = inventory
                          /\ info'[1] = "talk_no_cloth"
        /\ ( /\ state = "FEEDBACK"
             /\ result = None
             /\ info[1] \in {"talk_hum", "talk_ask", "talk_cloth",
                              "talk_no_cloth", "talk_shout"} )
              => /\ state' \in {"FEEDBACK", "ENEMY_BULLETS"}
                 /\ result' = None
      ]_vars

\* the enemy phase that follows the cloth-giving option without a cloth
C23_Witness ==
    /\ state = "FEEDBACK"
    /\ info = << "talk_no_cloth" >>
    /\ feedback_to_enemy = TRUE
    /\ inventory[2].count = 0
    /\ enemy.bond = 30
    /\ enemy_turn_count = 1

\* C24: Escape in the persuasion or the item list returns to PLAYER_MENU and
\* leaves player stats, enemy stats, inventory counts, the turn counter and the
\* main menu index unchanged; Escape during the attack minigame is ignored:
\* the state stays PLAYER_ACTION/attack and the minigame goes on as it was.
C24_CancelHasNoSideEffect ==
    [][ /\ KeyList("ESCAPE")
              => /\ state' = "PLAYER_MENU"
                 /\ player' = player
                 /\ enemy' = enemy
                 /\ inventory' = inventory
                 /\ enemy_turn_count' = enemy_turn_count
                 /\ main_selected' = main_selected
                 /\ result' = result
        /\ KeyAttack("ESCAPE")
              => /\ state' = "PLAYER_ACTION"
                 /\ list_mode' = "attack"
                 /\ attack_locked' = attack_locked
                 /\ attack_pointer' = attack_pointer
                 /\ attack_elapsed' = attack_elapsed
                 /\ attack_dir' = attack_dir
                 /\ enemy' = enemy
      ]_vars

\* back in the menu from the item list, its second entry selected, before any
\* feedback was shown: only Escape leaves the list that way
C24_Witness ==
    /\ state = "PLAYER_MENU"
    /\ info = << "choose_action" >>
    /\ main_selected = 2
    /\ list_selected = 1
    /\ state_timer = OBSERVE_TIME
    /\ enemy_turn_count = 0

\* C25: confirming the healing item with count > 0 decrements its count by
\* exactly 1, sets player hp to min(max_hp, hp + 5) and ends the turn (FEEDBACK
\* with go_enemy true), also when hp is already max_hp; an item at count 0
\* stays in the list (the list length never changes) and can still be
\* selected and confirmed.
C25_HealConsumesOneDew ==
    [][ /\ ( /\ state = "PLAYER_ACTION"
             /\ list_mode = "item"
             /\ list_selected = 0
             /\ inventory[1].name = "ganlu"
             /\ inventory[1].count > 0
             /\ KeyList("CONFIRM") )
              => /\ inventory'[1].count = inventory[1].count - 1
                 /\ inventory'[2] = inventory[2]
                 /\ player'.hp = IF player.hp + 5 < player.max_hp
                                  THEN player.hp + 5 ELSE player.max_hp
                 /\ player'.max_hp = player.max_hp
                 /\ enemy' = enemy
                 /\ state' = "FEEDBACK"
                 /\ feedback_to_enemy' = TRUE
        /\ Len(inventory') = Len(inventory)
        /\ (state' = "PLAYER_ACTION" /\ list_mode' = "item")
              => Len(ActiveOptions(list_mode', inventory')) = 2
        /\ ( /\ state = "PLAYER_ACTION"
             /\ list_mode = "item"
             /\ list_selected = 0
             /\ inventory[1].count = 0
             /\ KeyList("CONFIRM") )
              => info' = << "item_used_up" >>
      ]_vars

\* the second dew, drunk at 14 hp after the first one was drunk at full hp
C25_Witness ==
    /\ state = "FEEDBACK"
    /\ info = << "heal" >>
    /\ feedback_to_enemy = TRUE
    /\ inventory[1].count = 0
    /\ player.hp = 19
    /\ player.max_hp = 20
    /\ enemy_turn_count = 1

\* C26: one update_bullets call advances each bullet by velocity x elapsed time
\* and splits the bullets into hit (the hitbox intersects the soul; removed),
\* culled (removed) and retained; a bullet that intersects the soul counts as
\* a hit wherever it lies; the returned damage is the sum of the damage of the
\* hit bullets and the returned count their number; the retained bullets keep
\* their relative order, velocity, radius and damage.
C26_UpdateBulletsPartitions ==
    [][ (arena # NoArena /\ arena'.calls = arena.calls + 1) =>
          LET old == arena.list
              moved == [i \in 1..Len(old) |->
                          [old[i] EXCEPT
                             !.x2 = old[i].x2 + (old[i].vx * CallMs) \div 500,
                             !.y2 = old[i].y2 + (old[i].vy * CallMs) \div 500]]
              hit == {i \in 1..Len(old) :
                        RectCollide(BulletRect(moved[i]), arena.player_rect)}
              kept == {i \in 1..Len(old) :
                         /\ i \notin hit
                         /\ RectCollide(Rect(252 - 15, 322 - 15, 1032 + 30, 408 + 30),
                                        BulletRect(moved[i]))}
              dmg(i) == IF i \in hit THEN old[i].damage ELSE 0
              nth(j) == CHOOSE k \in kept : Cardinality({m \in kept : m < k}) = j - 1
          IN  /\ Len(old) <= 2
              /\ arena'.hit_count = Cardinality(hit)
              /\ arena'.damage = (IF Len(old) >= 1 THEN dmg(1) ELSE 0)
                                  + (IF Len(old) >= 2 THEN dmg(2) ELSE 0)
              /\ arena'.culled = Len(old) - Cardinality(hit) - Cardinality(kept)
              /\ Len(arena'.list) = Cardinality(kept)
              /\ \A j \in 1..Len(arena'.list) : arena'.list[j] = moved[nth(j)]
      ]_vars

\* of two bullets the first one was kept and the second one hit the soul
C26_Witness ==
    /\ arena # NoArena
    /\ arena.calls = 1
    /\ arena.hit_count = 1
    /\ arena.damage = 2
    /\ arena.culled = 0
    /\ Len(arena.list) = 1
    /\ arena.list[1].vy = 240

\* C27: a bullet that does not hit the soul and whose hitbox still intersects
\* the arena rectangle inflated by a margin of 30 units (30 on every side) is
\* retained by update_bullets; it is removed only when its hitbox no longer
\* intersects that inflated rectangle.
C27_RetainedWithinMargin30 ==
    [][ (arena # NoArena /\ arena'.calls = arena.calls + 1) =>
          LET old == arena.list
              moved == [i \in 1..Len(old) |->
                          [old[i] EXCEPT
                             !.x2 = old[i].x2 + (old[i].vx * CallMs) \div 500,
                             !.y2 = old[i].y2 + (old[i].vy * CallMs) \div 500]]
              kept == {i \in 1..Len(old) :
                         /\ ~RectCollide(BulletRect(moved[i]), arena.player_rect)
                         /\ RectCollide(Rect(252 - 30, 322 - 30, 1032 + 60, 408 + 60),
                                        BulletRect(moved[i]))}
              nth(j) == CHOOSE k \in kept : Cardinality({m \in kept : m < k}) = j - 1
          IN  /\ Len(arena'.list) = Cardinality(kept)
              /\ \A j \in 1..Len(arena'.list) : arena'.list[j] = moved[nth(j)]
      ]_vars

\* C27, amended: a bullet that does not hit the soul is retained exactly when
\* its hitbox intersects the arena rectangle grown by 30 units in width and in
\* height about its centre, which is a margin of 15 units on every side.
C27_RetainedWithinMargin15 ==
    [][ (arena # NoArena /\ arena'.calls = arena.calls + 1) =>
          LET old == arena.list
              moved == [i \in 1..Len(old) |->
                          [old[i] EXCEPT
                             !.x2 = old[i].x2 + (old[i].vx * CallMs) \div 500,
                             !.y2 = old[i].y2 + (old[i].vy * CallMs) \div 500]]
              kept == {i \in 1..Len(old) :
                         /\ ~RectCollide(BulletRect(moved[i]), arena.player_rect)
                         /\ RectCollide(Rect(252 - 15, 322 - 15, 1032 + 30, 408 + 30),
                                        BulletRect(moved[i]))}
              nth(j) == CHOOSE k \in kept : Cardinality({m \in kept : m < k}) = j - 1
          IN  /\ Len(arena'.list) = Cardinality(kept)
              /\ \A j \in 1..Len(arena'.list) : arena'.list[j] = moved[nth(j)]
      ]_vars

\* two resting bullets below the box, 4 and 14 units under its lower edge,
\* are both kept
C27_Witness ==
    /\ arena # NoArena
    /\ arena.calls = 1
    /\ arena.culled = 0
    /\ arena.hit_count = 0
    /\ Len(arena.list) = 2
    /\ arena.list[1].y2 = 1501
    /\ arena.list[2].y2 = 1480
    /\ arena.list[1].vy = 0
    /\ arena.list[2].vy = 0

\* C28: damage suppression is per frame batch: in a dodge frame where the
\* cooldown (after the frame's decrement) is 0 and k >= 1 bullets hit, player
\* hp decreases once by the sum of the k damages, clamped at 0; in a frame
\* where the cooldown is still positive, the bullets that hit are removed from
\* the list but change neither player hp nor the cooldown, which goes on
\* running down.
C28_DamagePerFrameBatch ==
    [][ (state = "ENEMY_BULLETS" /\ bullet_timer' # bullet_timer) =>
          LET dt == bullet_timer - bullet_timer'
              left == hit_cooldown - dt
              cooldown == IF left > 0 THEN left ELSE 0
              k == last_hits'
              hp == player.hp - 2 * k
          IN  /\ (cooldown = 0 /\ k >= 1)
                    => /\ player'.hp = IF hp > 0 THEN hp ELSE 0
                       /\ hit_cooldown' = 220
              /\ (cooldown > 0 \/ k = 0)
                    => /\ player'.hp = player.hp
                       /\ hit_cooldown' = cooldown
              /\ state' = "ENEMY_BULLETS" => bullets'.n <= bullets.n - k
              /\ state' # "ENEMY_BULLETS" => bullets'.n = 0
      ]_vars

\* two bullets hit in one frame and took 4 hp at once; 200 ms later a third
\* one hit and took nothing
C28_Witness ==
    /\ state = "ENEMY_BULLETS"
    /\ player.hp = 3
    /\ player.max_hp = 20
    /\ last_hits = 1
    /\ silent_hits = 1
    /\ since_hit = 200
    /\ hit_cooldown = 20

\* C29: after every dodge frame, whatever the direction keys and the elapsed
\* time, the soul lies within left+22..right-22 and top+46..bottom-22 of the
\* battle box; the rectangle handed to the bullet update of that frame is
\* centred on the clamped position; and the position changes in no state
\* other than ENEMY_BULLETS.
C29_SoulClampedInBox ==
    /\ soul = SoulStart
    /\ [][/\ soul'.x >= (BoxLeft + 22) * 1000
          /\ soul'.x <= (BoxLeft + BoxWidth - 22) * 1000
          /\ soul'.y >= (BoxTop + 46) * 1000
          /\ soul'.y <= (BoxTop + BoxHeight - 22) * 1000
          /\ soul'.rect_x = soul'.x \div 1000
          /\ soul'.rect_y = soul'.y \div 1000
          /\ (soul' # soul => state = "ENEMY_BULLETS")]_vars

\* the soul pushed into the top left corner of its range during a dodge
C29_Witness ==
    /\ state = "ENEMY_BULLETS"
    /\ soul.x = (BoxLeft + 22) * 1000
    /\ soul.y = (BoxTop + 46) * 1000
    /\ bullet_timer > 0

\* C30: in every state whose phase is not ENEMY_BULLETS the bullet list is
\* empty; the step that leaves ENEMY_BULLETS is the expiry of the dodge timer,
\* and it clears the list while it opens the feedback that leads back to the
\* player's menu (go_enemy false).
C30_NoBulletsOutsideDodge ==
    /\ (state # "ENEMY_BULLETS" => bullets = NoBullets)
    /\ [][/\ (state' # "ENEMY_BULLETS" => bullets' = NoBullets)
          /\ (state = "ENEMY_BULLETS" /\ state' # "ENEMY_BULLETS"
                => /\ bullet_timer' <= 0
                   /\ state' = "FEEDBACK"
                   /\ state_timer' = FEEDBACK_DELAY
                   /\ ~feedback_to_enemy')]_vars

\* the feedback that follows a dodge phase whose timer ran out
C30_Witness ==
    /\ state = "FEEDBACK"
    /\ info = << "enemy_turn_over" >>
    /\ ~feedback_to_enemy
    /\ bullet_timer <= 0
    /\ enemy_turn_count = 1
    /\ bullets = NoBullets

\* C31: the pointer of the attack minigame is within [0, 1] after every frame
\* whatever the elapsed time, and points downwards at 1 and upwards at 0;
\* every attack start resets the pointer to 0, the direction to increasing,
\* the elapsed time to 0 and the lock to false; every resolution, a MISS
\* included, opens the feedback that leads to the enemy phase.
C31_PointerBouncesInUnitRange ==
    /\ attack_pointer = 0 /\ attack_dir = 1
    /\ [][/\ attack_pointer' \in 0..PointerOne
          /\ attack_dir' \in {-1, 1}
          /\ (attack_elapsed' # attack_elapsed /\ attack_elapsed' # 0
                => /\ (attack_pointer' = PointerOne => attack_dir' = -1)
                   /\ (attack_pointer' = 0 => attack_dir' = 1)
                   /\ (attack_pointer' \notin {0, PointerOne}
                         => /\ attack_dir' = attack_dir
                            /\ attack_pointer' = attack_pointer
                                 + attack_dir * PointerPerMs
                                   * (attack_elapsed' - attack_elapsed)))
          /\ (state = "PLAYER_MENU" /\ list_mode' = "attack"
                => /\ state' = "PLAYER_ACTION"
                   /\ attack_pointer' = 0
                   /\ attack_dir' = 1
                   /\ attack_elapsed' = 0
                   /\ ~attack_locked')
          /\ (list_mode = "attack" /\ list_mode' # "attack"
                => /\ state' = "FEEDBACK"
                   /\ state_timer' = FEEDBACK_DELAY
                   /\ feedback_to_enemy'
                   /\ info' = << AttackTier(attack_pointer') >>)]_vars

\* a MISS at the lower end of the bar after the pointer has come back from
\* the upper end, the feedback leading to the enemy phase
C31_Witness ==
    /\ state = "FEEDBACK"
    /\ info = << "MISS" >>
    /\ feedback_to_enemy
    /\ attack_pointer = 0
    /\ attack_dir = 1
    /\ attack_elapsed >= ATTACK_DURATION
    /\ enemy.hp = 18

\* C32: with frames of positive length and no QUIT event, every timed phase
\* of an undecided encounter ends after finitely many frames whether or not
\* the player presses a key: OBSERVE reaches PLAYER_MENU, the attack minigame
\* reaches FEEDBACK, ENEMY_BULLETS reaches FEEDBACK or defeat, and FEEDBACK
\* reaches ENEMY_BULLETS, PLAYER_MENU or victory.
C32_TimedPhasesEnd ==
    /\ (state = "OBSERVE" /\ result = None) ~> (state = "PLAYER_MENU")
    /\ (state = "PLAYER_ACTION" /\ list_mode = "attack" /\ result = None)
         ~> (state = "FEEDBACK")
    /\ (state = "ENEMY_BULLETS" /\ result = None)
         ~> (state = "FEEDBACK" \/ result = "defeat")
    /\ (state = "FEEDBACK" /\ result = None)
         ~> (state \in {"ENEMY_BULLETS", "PLAYER_MENU"} \/ result = "victory")

\* the menu after the last dodge phase, reached by frames alone once the
\* player has let go of the keyboard
C32_Witness ==
    /\ state = "PLAYER_MENU"
    /\ enemy_turn_count = LiveTurns + 1
    /\ result = None
    /\ ret = NoRet

\* C33: in every reachable state the submode list_mode is set exactly when
\* the phase is PLAYER_ACTION, and it is then one of attack, talk and item.
C33_SubmodeOnlyInPlayerAction ==
    /\ (list_mode # None) <=> (state = "PLAYER_ACTION")
    /\ state = "PLAYER_ACTION" => list_mode \in {"attack", "talk", "item"}
    /\ list_mode \in {None, "attack", "talk", "item"}

\* the talk list opened in the third turn of the player
C33_Witness ==
    /\ state = "PLAYER_ACTION"
    /\ list_mode = "talk"
    /\ list_selected = 1
    /\ enemy_turn_count = 2
    /\ ret = NoRet

\* C34: in every reachable state an enemy with 0 hp is met only in FEEDBACK
\* or with the outcome victory (never in the player menu, a player action or
\* the dodge phase), and a player with 0 hp only with the outcome defeat.
C34_ZeroHpMeansEnd ==
    /\ enemy.hp = 0 => (state = "FEEDBACK" \/ result = "victory")
    /\ enemy.hp = 0 => state \notin {"PLAYER_MENU", "PLAYER_ACTION", "ENEMY_BULLETS"}
    /\ player.hp = 0 => result = "defeat"

\* the feedback of the attack that took the last hp of the enemy, the player
\* down to 1 hp, no outcome yet
C34_Witness ==
    /\ enemy.hp = 0
    /\ state = "FEEDBACK"
    /\ state_timer = FEEDBACK_DELAY
    /\ result = None
    /\ player.hp = 1

\* C35: once an outcome (victory, spared or defeat) is set it never changes,
\* and from then on until run returns no player stat, enemy stat or inventory
\* count changes, key events queued behind it in the same frame included; the
\* player_hp of the returned record is the hp at the time of the decision.
C35_OutcomeFreezesTheEncounter ==
    [][/\ result # None
            => /\ result' = result
               /\ player' = player
               /\ enemy' = enemy
               /\ inventory' = inventory
       /\ (ret = NoRet /\ ret' # NoRet /\ ~ret'[1].quit)
            => /\ ret'[1].outcome = result'
               /\ ret'[1].player_hp = player'.hp]_vars

\* C36: every inventory count is at least 0 in every state and never grows;
\* the cloth strip leaves the inventory only in the step that gives it to the
\* enemy (the rise of the bond by 30), which needs a count of 1 and leaves 0,
\* so it happens at most once; the player is healed only by a step that
\* takes one of the two dews, by at most 5 hp each, so by at most 10 in all.
C36_InventoryOnlyShrinks ==
    /\ inventory = BattleRuntimeInventory
    /\ [][/\ Len(inventory') = Len(inventory)
          /\ \A i \in 1..Len(inventory) :
                /\ inventory'[i].name = inventory[i].name
                /\ inventory'[i].count >= 0
                /\ inventory'[i].count <= inventory[i].count
                /\ inventory'[i].count >= inventory[i].count - 1
          /\ (inventory'[2].count # inventory[2].count
                <=> (state = "PLAYER_ACTION" /\ list_mode = "talk"
                     /\ state' = "FEEDBACK" /\ info'[1] = "talk_cloth"))
          /\ (enemy'.bond > enemy.bond + 18
                => (inventory[2].count = 1 /\ inventory'[2].count = 0))
          /\ (player'.hp > player.hp
                => /\ inventory'[1].count = inventory[1].count - 1
                   /\ player'.hp <= player.hp + HEAL_AMOUNT)
          /\ (inventory'[1].count # inventory[1].count
                => (state = "PLAYER_ACTION" /\ list_mode = "item"
                    /\ info' = << "heal" >>))]_vars

\* the cloth given and both dews drunk: 12 hp, healed by 5 and then by the 3
\* that were left to max_hp
C36_Witness ==
    /\ inventory[1].count = 0
    /\ inventory[2].count = 0
    /\ player.hp = player.max_hp
    /\ enemy.bond = 30
    /\ enemy.key_act_done
    /\ state = "FEEDBACK"
    /\ info = << "heal" >>

\* C37: against the initial enemy (hp 18, bond 0) the outcome spared needs
\* three committed persuasion actions and the outcome victory three resolved
\* attacks: the spare threshold and an enemy at 0 hp are met only after two
\* enemy phases, the turn counter is at least 3 whenever the outcome is
\* spared and at least 2 whenever it is victory.
C37_OutcomesNeedThreeActions ==
    /\ result = "spared" => enemy_turn_count >= 3
    /\ result = "victory" => enemy_turn_count >= 2
    /\ enemy.spare_progress >= SPARE_THRESHOLD => enemy_turn_count >= 2
    /\ enemy.hp = 0 => enemy_turn_count >= 2

\* spared right after the third enemy phase: the cloth, the hum and the
\* question make a bond of 62
C37_Witness ==
    /\ result = "spared"
    /\ enemy_turn_count = 3
    /\ enemy.bond = 62
    /\ enemy.hp = 18
    /\ ret # NoRet

\* C38: a key event in ENEMY_BULLETS or FEEDBACK is passed to no handler and
\* changes nothing (phase, menu indices, stats, inventory, timers, bullets):
\* in these phases every step that is neither a frame nor a QUIT leaves all
\* variables alone, so Enter cannot skip the feedback or the dodge; in
\* OBSERVE only Enter or Space is handled, and it only opens the menu.
C38_KeysIgnoredOutsideMenus ==
    [][/\ \A key \in Keys :
            /\ state \in {"ENEMY_BULLETS", "FEEDBACK"}
                 => EventHandler(state, key) = "none"
            /\ state = "OBSERVE"
                 => (EventHandler(state, key) # "none" <=> key = "CONFIRM")
       /\ (state = "FEEDBACK" /\ state_timer' = state_timer /\ ret' = ret)
            => UNCHANGED vars
       /\ (state = "ENEMY_BULLETS" /\ bullet_timer' = bullet_timer /\ ret' = ret)
            => UNCHANGED vars
       /\ (state = "OBSERVE" /\ state_timer' = state_timer /\ ret' = ret)
            => /\ state' = "PLAYER_MENU"
               /\ info' = << "choose_action" >>
               /\ UNCHANGED <<state_timer, main_selected, list_selected,
                              list_mode, feedback_to_enemy, attackVars,
                              dodgeVars, player, enemy, inventory, result>>
      ]_vars

\* the middle of the first dodge phase, the menu index where the player left it
C38_Witness ==
    /\ state = "ENEMY_BULLETS"
    /\ enemy_turn_count = 1
    /\ bullet_timer > 0
    /\ bullet_timer < 3500
    /\ main_selected = 0
    /\ enemy.hp = 11
    /\ ret = NoRet

\* C39: the phases follow the cycle PLAYER_MENU, PLAYER_ACTION, FEEDBACK with
\* go_enemy, ENEMY_BULLETS, FEEDBACK without go_enemy, PLAYER_MENU. A feedback
\* with go_enemy is opened only by a turn-ending action out of PLAYER_ACTION,
\* and its expiry starts one enemy phase unless the enemy's hp is 0 or an
\* outcome is set; an enemy phase starts from nowhere else, counts one turn
\* and ends in a feedback without go_enemy, which leads to PLAYER_MENU only:
\* one enemy phase follows each turn-ending action before the next menu, and
\* the menu and exactly one turn-ending action lie between two enemy phases.
C39_OneEnemyPhasePerAction ==
    [][/\ (state' = "FEEDBACK" /\ state # "FEEDBACK" /\ feedback_to_enemy')
            => state = "PLAYER_ACTION"
       /\ feedback_to_enemy' # feedback_to_enemy
            => (state' = "FEEDBACK" /\ state # "FEEDBACK")
       /\ (state = "FEEDBACK" /\ feedback_to_enemy /\ state' # "FEEDBACK")
            => /\ state' = "ENEMY_BULLETS"
               /\ enemy.hp > 0
               /\ result = None
       /\ (state = "FEEDBACK" /\ feedback_to_enemy /\ state_timer' # state_timer
            /\ state_timer' <= 0 /\ result = None /\ enemy.hp > 0)
            => state' = "ENEMY_BULLETS"
       /\ (state' = "ENEMY_BULLETS" /\ state # "ENEMY_BULLETS")
            => /\ state = "FEEDBACK"
               /\ feedback_to_enemy
               /\ enemy_turn_count' = enemy_turn_count + 1
       /\ enemy_turn_count' # enemy_turn_count
            => (state' = "ENEMY_BULLETS" /\ state # "ENEMY_BULLETS")
       /\ (state = "ENEMY_BULLETS" /\ state' # "ENEMY_BULLETS")
            => (state' = "FEEDBACK" /\ ~feedback_to_enemy')
       /\ (state = "FEEDBACK" /\ ~feedback_to_enemy /\ state' # "FEEDBACK")
            => state' = "PLAYER_MENU"
       /\ (state = "PLAYER_MENU" /\ state' # "PLAYER_MENU")
            => \/ state' = "PLAYER_ACTION"
               \/ state' = "FEEDBACK" /\ ~feedback_to_enemy'
      ]_vars

\* the menu after two turns: an attack and a dew, an enemy phase after each
C39_Witness ==
    /\ state = "PLAYER_MENU"
    /\ enemy_turn_count = 2
    /\ enemy.hp = 11
    /\ inventory[1].count = 1
    /\ enemy.bond = 0
    /\ result = None

\* C40: the hit cooldown is 0 at the entry of every ENEMY_BULLETS phase, so
\* a collision in the first frame of a dodge phase always reduces player hp;
\* the cooldown of a hit at the end of the previous dodge phase is not
\* carried over.
C40_CooldownZeroAtPhaseEntry ==
    [][/\ (state' = "ENEMY_BULLETS" /\ state # "ENEMY_BULLETS")
            => hit_cooldown' = 0
       /\ (state = "ENEMY_BULLETS" /\ bullet_timer \in BulletTimes
            /\ bullet_timer' # bullet_timer /\ last_hits' > 0)
            => player'.hp < player.hp
      ]_vars

====
